---------------------------- MODULE Spec2Model ----------------------------
(***************************************************************************)
(* gitree: repository discovery (scanner), per-repository status          *)
(* extraction, bounded-concurrency batch coordination (ExtractBatch,       *)
(* fetchBatch) and the clean/needs-attention classifier (IsClean,          *)
(* FilterRepositories).                                                    *)
(*                                                                         *)
(* Specifications:                                                         *)
(*   Spec        the batch pipeline of runGitree: fetchBatch, ExtractBatch,*)
(*               attaching the statuses, FilterRepositories                *)
(*   LiveSpec    ExtractBatch under the fairness of scheduler and timers   *)
(*   FilterSpec  IsClean / FilterRepositories on bounded inputs            *)
(*   DetectSpec  IsGitRepository on every marker layout                    *)
(*   ScanSpec    Scan / walkFunc over bounded directory trees              *)
(***************************************************************************)
EXTENDS Integers, Sequences, FiniteSets, TLC

\* ------------------------------------------------------------------ bounds

\* Most repositories handed to one batch.
MaxRepos == 2

\* Largest MaxConcurrency (capacity of the semaphore channel) explored.
MaxConc == 2

\* Longest repository list handed to FilterRepositories in FilterSpec.
MaxLen == 2

\* Largest magnitude of the ahead and behind counts of a record in FilterSpec.
MaxAhead == 1

\* ------------------------------------------------------------- data model

\* A nil pointer (*models.GitStatus, *models.Repository).
NIL == [nil |-> TRUE]

\* models.GitStatus with every field at its Go zero value.
ZeroStatus ==
    [branch |-> "", isDetached |-> FALSE, hasRemote |-> FALSE,
     ahead |-> 0, behind |-> 0, hasStashes |-> FALSE, hasChanges |-> FALSE,
     error |-> "", fetchError |-> ""]

\* models.Repository as walkFunc creates it (GitStatus nil until attached).
Repository(path, isBare, isSymlink, gitStatus) ==
    [path |-> path, isBare |-> isBare, isSymlink |-> isSymlink,
     gitStatus |-> gitStatus]

\* ------------------------------------------------------------- classifier

\* A slip a maintainer could make in IsClean: the status-error guard dropped.
IsCleanNoErrorCheck(repo) ==
    IF repo = NIL \/ repo.gitStatus = NIL THEN FALSE
    ELSE LET status == repo.gitStatus IN
         IF status.branch # "main" /\ status.branch # "master" THEN FALSE
         ELSE IF status.hasChanges THEN FALSE
         ELSE IF status.hasStashes THEN FALSE
         ELSE IF ~status.hasRemote THEN FALSE
         ELSE IF status.ahead > 0 THEN FALSE
         ELSE IF status.behind > 0 THEN FALSE
         ELSE IF status.isDetached THEN FALSE
         ELSE TRUE

\* cli.IsClean: the chain of early returns of filter.go.
IsClean(repo) ==
    IF repo = NIL \/ repo.gitStatus = NIL THEN FALSE
    ELSE LET status == repo.gitStatus IN
         IF status.error # "" THEN FALSE
         ELSE IF status.branch # "main" /\ status.branch # "master" THEN FALSE
         ELSE IF status.hasChanges THEN FALSE
         ELSE IF status.hasStashes THEN FALSE
         ELSE IF ~status.hasRemote THEN FALSE
         ELSE IF status.ahead > 0 THEN FALSE
         ELSE IF status.behind > 0 THEN FALSE
         ELSE IF status.isDetached THEN FALSE
         ELSE TRUE

\* The loop of FilterRepositories: append every record that is not clean.
RECURSIVE FilterLoop(_, _)
FilterLoop(repos, filtered) ==
    IF repos = <<>> THEN filtered
    ELSE FilterLoop(Tail(repos),
                    IF ~IsClean(Head(repos))
                    THEN Append(filtered, Head(repos))
                    ELSE filtered)

\* A slip in FilterRepositories: the test inverted (keeps the clean ones).
RECURSIVE FilterLoopInverted(_, _)
FilterLoopInverted(repos, filtered) ==
    IF repos = <<>> THEN filtered
    ELSE FilterLoopInverted(Tail(repos),
                    IF IsClean(Head(repos))
                    THEN Append(filtered, Head(repos))
                    ELSE filtered)

FilterRepositoriesInverted(repos, optsShowAll) ==
    IF optsShowAll THEN repos ELSE FilterLoopInverted(repos, <<>>)

\* cli.FilterRepositories.
FilterRepositories(repos, optsShowAll) ==
    IF optsShowAll THEN repos ELSE FilterLoop(repos, <<>>)

\* -------------------------------------------------------- status extractor

\* What go-git reports about one repository: the inputs of extractGitStatus.
\*   openErr     git.PlainOpen fails
\*   headErr     repo.Head() fails
\*   headIsBranch, branch   HEAD names a branch, and its short name
\*   remotesErr  repo.Remotes() fails;  nRemotes  number of remotes
\*   trackRef    refs/remotes/origin/<branch> exists
\*   abFail      which later step of extractAheadBehind fails
\*   localOnly, remoteOnly  commits reachable from one tip and not the other
\*   stash       refs/stash exists
\*   bare        repo.Worktree() returns ErrIsBareRepository
\*   wtErr       worktree.Status() fails;  wtClean  its IsClean()
Facts(openErr, headErr, headIsBranch, branch, nRemotes, trackRef, abFail, localOnly, remoteOnly, stash, bare, wtErr, wtClean) ==
    [openErr |-> openErr, headErr |-> headErr, headIsBranch |-> headIsBranch,
     branch |-> branch, remotesErr |-> FALSE, nRemotes |-> nRemotes,
     trackRef |-> trackRef, abFail |-> abFail, localOnly |-> localOnly,
     remoteOnly |-> remoteOnly, stash |-> stash, bare |-> bare,
     wtErr |-> wtErr, wtClean |-> wtClean]

\* extractBranch: [status, err].
extractBranch(f, status) ==
    IF f.headErr
    THEN [status |-> status, err |-> "failed to get HEAD"]
    ELSE IF ~f.headIsBranch
    THEN [status |-> [status EXCEPT !.isDetached = TRUE, !.branch = "DETACHED"],
          err |-> ""]
    ELSE [status |-> [status EXCEPT !.isDetached = FALSE, !.branch = f.branch],
          err |-> ""]

\* extractRemote: [status, err].
extractRemote(f, status) ==
    IF f.remotesErr
    THEN [status |-> status, err |-> "remotes unavailable"]
    ELSE IF f.nRemotes > 0
    THEN [status |-> [status EXCEPT !.hasRemote = TRUE], err |-> ""]
    ELSE [status |-> [status EXCEPT !.hasRemote = FALSE],
          err |-> "no remotes configured"]

\* A slip in extractAheadBehind: ahead is the difference of the two counts.
extractAheadBehindNet(f, status) == [status |-> [status EXCEPT !.ahead = f.localOnly - f.remoteOnly, !.behind = f.remoteOnly - f.localOnly], err |-> IF f.trackRef THEN "" ELSE "reference not found"]

\* A slip in extractAheadBehind: a missing tracking reference is not an error.
extractAheadBehindQuiet(f, status) == IF f.headErr THEN [status |-> status, err |-> "reference not found"] ELSE IF ~f.trackRef THEN [status |-> [status EXCEPT !.ahead = 0, !.behind = 0], err |-> ""] ELSE [status |-> [status EXCEPT !.ahead = f.localOnly, !.behind = f.remoteOnly], err |-> IF f.abFail = "none" THEN "" ELSE "object not found"]

\* extractAheadBehind: [status, err].
extractAheadBehind(f, status) ==
    IF f.headErr
    THEN [status |-> status, err |-> "reference not found"]
    ELSE IF ~f.trackRef
    THEN [status |-> [status EXCEPT !.ahead = 0, !.behind = 0],
          err |-> "reference not found"]
    ELSE IF f.abFail \in {"commit", "ahead"}
    THEN [status |-> status, err |-> "object not found"]
    ELSE IF f.abFail = "behind"
    THEN [status |-> [status EXCEPT !.ahead = f.localOnly],
          err |-> "object not found"]
    ELSE [status |-> [status EXCEPT !.ahead = f.localOnly,
                                    !.behind = f.remoteOnly],
          err |-> ""]

\* extractStashes.
extractStashes(f) == f.stash

\* git.ErrIsBareRepository, which repo.Worktree() returns.
ErrIsBareRepository == "worktree not available in a bare repository"

\* A slip in extractUncommittedChanges: the error of repo.Worktree() is
\* wrapped in a way errors.Is does not see through.
extractUncommittedChangesOpaque(f, status) == IF f.bare THEN [status |-> [status EXCEPT !.hasChanges = FALSE], err |-> "failed to get worktree"] ELSE [status |-> [status EXCEPT !.hasChanges = ~f.wtClean], err |-> ""]

\* extractUncommittedChanges: [status, err].
extractUncommittedChanges(f, status) ==
    IF f.bare
    THEN [status |-> [status EXCEPT !.hasChanges = FALSE],
          err |-> ErrIsBareRepository]
    ELSE IF f.wtErr
    THEN [status |-> status, err |-> "failed to get worktree status"]
    ELSE [status |-> [status EXCEPT !.hasChanges = ~f.wtClean], err |-> ""]

\* A slip in extractGitStatus: the error of a step replaces an earlier one.
KeepLastError(status, err) == [status EXCEPT !.error = err]

\* Records the error of a step unless an earlier one is already recorded.
KeepFirstError(status, err) ==
    IF status.error = "" THEN [status EXCEPT !.error = err] ELSE status

\* extractGitStatus: [status, err]; status is NIL when the open fails.
extractGitStatus(f) ==
    IF f.openErr
    THEN [status |-> NIL, err |-> "failed to open repository"]
    ELSE
    LET b  == extractBranch(f, ZeroStatus)
        s1 == IF b.err # ""
              THEN [b.status EXCEPT !.branch = "N/A", !.error = b.err]
              ELSE b.status
        r  == extractRemote(f, s1)
        s2 == IF r.err # "" THEN [r.status EXCEPT !.hasRemote = FALSE]
              ELSE r.status
        ab == extractAheadBehind(f, s2)
        s3 == IF s2.hasRemote
              THEN IF ab.err # "" THEN KeepFirstError(ab.status, ab.err)
                   ELSE ab.status
              ELSE s2
        s4 == [s3 EXCEPT !.hasStashes = extractStashes(f)]
        u  == extractUncommittedChanges(f, s4)
        s5 == IF u.err # "" /\ u.err # ErrIsBareRepository
              THEN KeepFirstError(u.status, u.err)
              ELSE u.status
    IN  [status |-> s5, err |-> ""]

\* The partial snapshot Extract builds when the extraction reports an error.
PartialError(err) == [ZeroStatus EXCEPT !.branch = "N/A", !.error = err]

\* The partial snapshot Extract builds when ctx.Done() is selected.
PartialTimeout == [ZeroStatus EXCEPT !.branch = "N/A", !.error = "timeout"]

\* Extract: the snapshot it returns when its select takes what the extraction
\* delivered (on resultChan or errorChan), and when it takes ctx.Done().
Extract(f, selected) ==
    IF selected = "ctx.Done" THEN PartialTimeout
    ELSE LET e == extractGitStatus(f)
         IN  IF e.err # "" THEN PartialError(e.err) ELSE e.status

\* ------------------------------------------------------ repository detection

\* What os.Stat reports for an entry: missing (or any error), a file, a directory.
Kinds == {"none", "file", "dir"}

\* The pair (isRepo, isBare) IsGitRepository returns.
Detected(isRepo, isBare) == [isRepo |-> isRepo, isBare |-> isBare]

\* A slip in IsGitRepository: any two of the three bare markers are enough.
IsGitRepositoryTwoMarkers(m) ==
    IF m.git = "dir" THEN Detected(TRUE, FALSE)
    ELSE LET headExists == m.head # "none"
             refsExists == m.refs = "dir"
             objsExists == m.objs = "dir"
         IN  IF \/ headExists /\ refsExists
                \/ headExists /\ objsExists
                \/ refsExists /\ objsExists
             THEN Detected(TRUE, TRUE)
             ELSE Detected(FALSE, FALSE)

\* IsGitRepository on a directory whose entries .git, HEAD, refs and objects
\* stat as m.git, m.head, m.refs, m.objs.
IsGitRepository(m) ==
    IF m.git = "dir" THEN Detected(TRUE, FALSE)
    ELSE LET headExists == m.head # "none"
             refsExists == m.refs = "dir"
             objsExists == m.objs = "dir"
         IN  IF headExists /\ refsExists /\ objsExists
             THEN Detected(TRUE, TRUE)
             ELSE Detected(FALSE, FALSE)

\* ------------------------------------------------------------ fetch result

\* gitstatus.FetchResult; a nil Error is "".
FetchResult(success, skipped, error) ==
    [success |-> success, skipped |-> skipped, error |-> error]

\* What one call of fetchFromOrigin meets: PlainOpen fails; there is no origin
\* remote; origin has no URL; every attempt fails; an attempt succeeds (or
\* reports "already up to date"); the context is done before or during it.
FetchEnvs == {"openErr", "noOrigin", "noURL", "allFail", "fetched", "ctxDone"}

\* A slip in fetchFromOrigin: a missing origin remote or URL is reported as a
\* failure instead of a skip.
fetchFromOriginNoSkip(env) == IF env \in {"fetched"} THEN FetchResult(TRUE, FALSE, "") ELSE FetchResult(FALSE, FALSE, IF env = "ctxDone" THEN "context canceled" ELSE "fetch failed")

\* fetchFromOrigin: the FetchResult it returns in each of these cases.
fetchFromOrigin(env) ==
    CASE env = "openErr"  -> FetchResult(FALSE, FALSE, "failed to open repository")
      [] env = "noOrigin" -> FetchResult(FALSE, TRUE, "")
      [] env = "noURL"    -> FetchResult(FALSE, TRUE, "")
      [] env = "fetched"  -> FetchResult(TRUE, FALSE, "")
      [] env = "ctxDone"  -> FetchResult(FALSE, FALSE, "context canceled")
      [] OTHER            -> FetchResult(FALSE, FALSE, "fetch failed after retries")

\* The cases the fetch phase of the pipeline meets.
PipelineFetchEnvs == {"noOrigin", "noURL", "allFail", "fetched", "ctxDone"}

\* What repo.Remote("origin") gives for a repository: no such remote, a
\* remote without URLs, a remote with a URL.
RemoteKinds == {"none", "noURL", "origin"}

\* The cases fetchFromOrigin can meet on a repository with such a remote.
EnvsOfRemote(kind) ==
    CASE kind = "none"  -> {"noOrigin"}
      [] kind = "noURL" -> {"noURL"}
      [] OTHER          -> FetchEnvs \ {"noOrigin", "noURL"}

\* models.FetchStats, zero valued.
ZeroFetchStats ==
    [totalAttempted |-> 0, successful |-> 0, skipped |-> 0, failed |-> 0,
     failedRepos |-> <<>>]

\* ------------------------------------------------------------------ state

VARIABLES
    \* the batch pipeline (runGitree, ExtractBatch, fetchBatch)
    nRepos,         \* number of repositories in the batch: paths 1..nRepos
    maxConcurrency, \* opts.MaxConcurrency
    fetch,          \* opts.Fetch
    isBare,         \* Repository.IsBare of each repository
    remote,         \* the origin remote of each: "none", "noURL", "origin"
    cancelled,      \* the batch context is done
    phase,          \* "fetch", "status", "attach", "filter", "done"
    spawned,        \* repositories the spawn loop of the phase has passed
    pc,             \* position of each worker goroutine of the phase
    semaphore,      \* number of tokens in the semaphore channel
    wg,             \* sync.WaitGroup counter
    closed,         \* the results channel is closed
    results,        \* the results channel: paths whose result is buffered
    inner,          \* the goroutine Extract starts: "idle", "running", "sent"
    innerVal,       \* what that goroutine sent: [status, err]
    timedOut,       \* the per-repository deadline of Extract has passed
    late,           \* the deadline passed while the extraction was running
    retPath,        \* the select case Extract returned through
    extractRet,     \* the snapshot Extract returned
    fetchRes,       \* the FetchResult of each repository
    fetchStats,     \* batchResult.FetchStats (NIL until fetchBatch sets it)
    gitStatus,      \* Repository.GitStatus of each repository
    statuses,       \* the status map of ExtractBatch
    showAll,        \* FilterOptions.ShowAll
    filtered,       \* the list FilterRepositories returned
    \* FilterRepositories on its own
    fInput,         \* the list passed to FilterRepositories
    fBefore,        \* that list as it was when the call was made
    fShowAll,       \* opts.ShowAll of the call
    fOutput,        \* the list FilterRepositories returned
    fDone,          \* FilterRepositories has returned
    \* IsGitRepository on its own
    dMarkers,       \* what os.Stat reports for .git, HEAD, refs, objects
    dResult,        \* what IsGitRepository returned (NIL before the call)
    \* Scan
    tree,           \* the type of every entry of the directory tree
    inoAlias,       \* the entry whose inode number each entry has
    scanCtx,        \* "live", "canceled", "deadline"
    scanPc,         \* "idle", "start", "visit", "read", "done", "fatal"
    todo,           \* entries WalkDir has yet to pass to walkFunc, in order
    walkErr,        \* the error WalkDir returns ("" for nil)
    repositories,   \* scanner.repositories
    errors,         \* scanner.errors
    visited,        \* scanner.visited
    dirCount,       \* scanner.dirCount
    scanResult,     \* the *ScanResult Scan returned (NIL: none)
    \* calculateBackoff on its own
    bAttempt,       \* the attempt number passed to calculateBackoff
    bBuild,         \* how the build converts a float64 that is out of range
    bDelay,         \* the time.Duration calculateBackoff returned (NIL before)
    \* fetchFromOrigin, its retry loop
    rEnv,           \* what PlainOpen and the origin remote of the path give
    rRetries,       \* opts.FetchRetries
    rDefault,       \* defaultFetchRetries
    rTimeout,       \* opts.Timeout > 0
    rCtx,           \* the context of the call: "live", "canceled", "deadline"
    rPc,            \* "idle", "open", "check", "sleep", "fetch", "done"
    rAttempt,       \* attempt, which is result.Retries
    rDelay,         \* the delay of the backoff sleep not yet over (NIL: none)
    rLog,           \* what each call of performFetch returned, in order
    rLastErr,       \* lastErr ("" for nil)
    rResult,        \* the *FetchResult returned (NIL before)
    rCause,         \* the error result.Error wraps ("" when it wraps none)
    \* Extract on its own
    eFacts,         \* what go-git reports about the repository
    eStatus,        \* the *GitStatus Extract returned (NIL before)
    \* getAuthForURL on its own
    aURL,           \* the remote URL
    aHelper,        \* what git credential fill does when it is run
    aAuth           \* the transport.AuthMethod returned (NIL before)

batchVars ==
    <<nRepos, maxConcurrency, fetch, isBare, remote, cancelled, phase, spawned,
      pc, semaphore, wg, closed, results, inner, innerVal,
      timedOut, late, retPath, extractRet, fetchRes, fetchStats, gitStatus,
      statuses, showAll, filtered>>

filterVars == <<fInput, fBefore, fShowAll, fOutput, fDone>>

detectVars == <<dMarkers, dResult>>

scanVars ==
    <<tree, inoAlias, scanCtx, scanPc, todo, walkErr, repositories, errors,
      visited, dirCount, scanResult>>

backoffVars == <<bAttempt, bBuild, bDelay>>

retryVars ==
    <<rEnv, rRetries, rDefault, rTimeout, rCtx, rPc, rAttempt, rDelay, rLog,
      rLastErr, rResult, rCause>>

extractVars == <<eFacts, eStatus>>

authVars == <<aURL, aHelper, aAuth>>

\* The variables of Extract and getAuthForURL on their own.
callVars == <<extractVars, authVars>>

vars == <<batchVars, filterVars, detectVars, scanVars, backoffVars, retryVars, callVars>>

Paths == 1..MaxRepos

repos == 1..nRepos

\* A step of the batch pipeline leaves the other specifications' state alone.
BatchOnly == UNCHANGED <<filterVars, detectVars, scanVars, backoffVars, retryVars, callVars>>

\* The variables of the batch pipeline before runGitree builds the map.
BatchIdle ==
    /\ nRepos = 0 /\ maxConcurrency = 0 /\ fetch = FALSE
    /\ isBare = [r \in Paths |-> FALSE]
    /\ remote = [r \in Paths |-> "origin"]
    /\ cancelled = FALSE /\ phase = "done" /\ spawned = {}
    /\ pc = [r \in Paths |-> "idle"]
    /\ semaphore = 0 /\ wg = 0 /\ closed = FALSE /\ results = <<>>
    /\ inner = [r \in Paths |-> "idle"]
    /\ innerVal = [r \in Paths |-> NIL]
    /\ timedOut = [r \in Paths |-> FALSE]
    /\ late = [r \in Paths |-> FALSE]
    /\ retPath = [r \in Paths |-> "none"]
    /\ extractRet = [r \in Paths |-> NIL]
    /\ fetchRes = [r \in Paths |-> NIL]
    /\ fetchStats = NIL
    /\ gitStatus = [r \in Paths |-> NIL]
    /\ statuses = [r \in Paths |-> NIL]
    /\ showAll = FALSE /\ filtered = <<>>

FilterIdle ==
    /\ fInput = <<>> /\ fBefore = <<>> /\ fShowAll = FALSE
    /\ fOutput = <<>> /\ fDone = FALSE

DetectIdle ==
    /\ dMarkers = [git |-> "none", head |-> "none", refs |-> "none", objs |-> "none"]
    /\ dResult = NIL

\* The entries of the directory trees Scan is run on: the root, its entries a
\* and b, and the entry a of a.
Root == <<>>

TreePaths == {Root, <<"a">>, <<"b">>, <<"a", "a">>}

ScanIdle ==
    /\ tree = [p \in TreePaths |-> "absent"]
    /\ inoAlias = [p \in TreePaths |-> p]
    /\ scanCtx = "live" /\ scanPc = "idle" /\ todo = <<>> /\ walkErr = ""
    /\ repositories = <<>> /\ errors = <<>> /\ visited = {} /\ dirCount = 0
    /\ scanResult = NIL

\* No call of calculateBackoff on its own.
BackoffIdle == bAttempt = 0 /\ bBuild = "none" /\ bDelay = NIL

\* No call of fetchFromOrigin under observation.
RetryIdle ==
    /\ rEnv = "ok" /\ rRetries = 0 /\ rDefault = 1 /\ rTimeout = FALSE
    /\ rCtx = "live" /\ rPc = "idle" /\ rAttempt = 0 /\ rDelay = NIL
    /\ rLog = <<>> /\ rLastErr = "" /\ rResult = NIL /\ rCause = ""

\* Neither of the two is under way.
FetchIdle == BackoffIdle /\ RetryIdle

\* No call of Extract on its own.
ExtractIdle == eFacts = NIL /\ eStatus = NIL

\* No call of getAuthForURL on its own.
AuthIdle == aURL = <<>> /\ aHelper = NIL /\ aAuth = NIL

CallsIdle == ExtractIdle /\ AuthIdle

\* ------------------------------------------------------- the batch pipeline

\* The repositories the extraction of the pipeline meets: one that extracts to
\* a clean snapshot, one that needs attention, one that cannot be opened.
PipelineFacts(bare) ==
    { Facts(FALSE, FALSE, TRUE, "main", 1, TRUE, "none", 0, 0, FALSE, bare, FALSE, TRUE),
      Facts(FALSE, FALSE, TRUE, "feature", 0, FALSE, "none", 0, 0, FALSE, bare, FALSE, FALSE),
      Facts(TRUE, FALSE, TRUE, "main", 0, FALSE, "none", 0, 0, FALSE, bare, FALSE, TRUE) }

\* runGitree has built repoMap and calls ExtractBatch with its options. The
\* origin remote matters where fetchFromOrigin reads it: with fetch enabled,
\* on a repository that is not bare.
BatchInit ==
    /\ nRepos \in 1..MaxRepos
    /\ maxConcurrency \in 0..MaxConc
    /\ fetch \in BOOLEAN
    /\ isBare \in [Paths -> BOOLEAN]
    /\ \A r \in Paths : r > nRepos => ~isBare[r]
    /\ remote \in [Paths -> RemoteKinds]
    /\ \A r \in Paths : (r > nRepos \/ ~fetch \/ isBare[r]) => remote[r] = "origin"
    /\ cancelled = FALSE
    /\ phase = IF fetch THEN "fetch" ELSE "status"
    /\ spawned = {}
    /\ pc = [r \in Paths |-> "idle"]
    /\ semaphore = 0 /\ wg = 0 /\ closed = FALSE /\ results = <<>>
    /\ inner = [r \in Paths |-> "idle"]
    /\ innerVal = [r \in Paths |-> NIL]
    /\ timedOut = [r \in Paths |-> FALSE]
    /\ late = [r \in Paths |-> FALSE]
    /\ retPath = [r \in Paths |-> "none"]
    /\ extractRet = [r \in Paths |-> NIL]
    /\ fetchRes = [r \in Paths |-> NIL]
    /\ fetchStats = IF fetch THEN ZeroFetchStats ELSE NIL
    /\ gitStatus = [r \in Paths |-> NIL]
    /\ statuses = [r \in Paths |-> NIL]
    /\ showAll = FALSE /\ filtered = <<>>

\* The spawn loop of the phase is over: the closer goroutine is launched and
\* the coordinator ranges over the results channel.
Collecting == phase \in {"fetch", "status"} /\ spawned = repos

\* The batch context is cancelled or its deadline passes.
Cancel ==
    /\ BatchOnly
    /\ phase \in {"fetch", "status"}
    /\ ~cancelled
    /\ cancelled' = TRUE
    /\ UNCHANGED <<nRepos, maxConcurrency, fetch, isBare, remote, phase, spawned, pc,
                   semaphore, wg, closed, results, inner, innerVal, timedOut,
                   late, retPath, extractRet, fetchRes, fetchStats, gitStatus,
                   statuses, showAll, filtered>>

\* A worker's first select: return if the context is done.
CheckContext(r) ==
    /\ pc[r] = "start"
    /\ pc' = [pc EXCEPT ![r] = IF cancelled THEN "wgdone" ELSE "gate"]

\* A slip in the admission gate: a token is sent without regard to capacity.
AcquireSlotUnbounded(r) ==
    /\ pc[r] = "gate"
    /\ semaphore' = semaphore + 1
    /\ pc' = [pc EXCEPT ![r] = "work"]

\* A slip in the admission gate: the channel has room for one token more
\* than MaxConcurrency.
AcquireSlotOneMore(r) == pc[r] = "gate" /\ semaphore <= maxConcurrency /\ semaphore' = semaphore + 1 /\ pc' = [pc EXCEPT ![r] = "work"]

\* A worker's second select, case semaphore <- struct{}{}: the send succeeds
\* while the channel holds fewer than MaxConcurrency tokens.
AcquireSlot(r) ==
    /\ pc[r] = "gate"
    /\ semaphore < maxConcurrency
    /\ semaphore' = semaphore + 1
    /\ pc' = [pc EXCEPT ![r] = "work"]

\* A worker's second select, case <-ctx.Done().
GateCancelled(r) ==
    /\ pc[r] = "gate"
    /\ cancelled
    /\ pc' = [pc EXCEPT ![r] = "wgdone"]

\* A slip in the worker: it ends without giving its slot back.
ReleaseSlotLeaks(r) ==
    /\ pc[r] = "release"
    /\ semaphore' = semaphore
    /\ pc' = [pc EXCEPT ![r] = "wgdone"]

\* A slip in the worker: the slot is given back only while the context is
\* live.
ReleaseSlotIfLive(r) == pc[r] = "release" /\ semaphore' = (IF cancelled THEN semaphore ELSE semaphore - 1) /\ pc' = [pc EXCEPT ![r] = "wgdone"]

\* The deferred func() { <-semaphore }().
ReleaseSlot(r) ==
    /\ pc[r] = "release"
    /\ semaphore' = semaphore - 1
    /\ pc' = [pc EXCEPT ![r] = "wgdone"]

\* The deferred wg.Done().
WorkerDone(r) ==
    /\ pc[r] = "wgdone"
    /\ wg' = wg - 1
    /\ pc' = [pc EXCEPT ![r] = "done"]

\* ---- fetchBatch

\* One turn of the spawn loop of fetchBatch: a bare repository is counted as
\* skipped, any other gets a goroutine and is counted as attempted.
FetchSpawn(r) ==
    /\ BatchOnly
    /\ phase = "fetch"
    /\ r \in repos \ spawned
    /\ spawned' = spawned \cup {r}
    /\ IF isBare[r]
       THEN /\ fetchStats' = [fetchStats EXCEPT !.skipped = @ + 1]
            /\ UNCHANGED <<wg, pc>>
       ELSE /\ wg' = wg + 1
            /\ fetchStats' = [fetchStats EXCEPT !.totalAttempted = @ + 1]
            /\ pc' = [pc EXCEPT ![r] = "start"]
    /\ UNCHANGED <<nRepos, maxConcurrency, fetch, isBare, remote, cancelled, phase,
                   semaphore, closed, results, inner, innerVal, timedOut, late,
                   retPath, extractRet, fetchRes, gitStatus, statuses, showAll,
                   filtered>>

FetchCheckContext(r) ==
    /\ BatchOnly
    /\ phase = "fetch"
    /\ CheckContext(r)
    /\ UNCHANGED <<nRepos, maxConcurrency, fetch, isBare, remote, cancelled, phase,
                   spawned, semaphore, wg, closed, results, inner, innerVal,
                   timedOut, late, retPath, extractRet, fetchRes, fetchStats,
                   gitStatus, statuses, showAll, filtered>>

FetchAcquire(r) ==
    /\ BatchOnly
    /\ phase = "fetch"
    /\ AcquireSlot(r)
    /\ UNCHANGED <<nRepos, maxConcurrency, fetch, isBare, remote, cancelled, phase,
                   spawned, wg, closed, results, inner, innerVal, timedOut,
                   late, retPath, extractRet, fetchRes, fetchStats, gitStatus,
                   statuses, showAll, filtered>>

FetchGateCancelled(r) ==
    /\ BatchOnly
    /\ phase = "fetch"
    /\ GateCancelled(r)
    /\ UNCHANGED <<nRepos, maxConcurrency, fetch, isBare, remote, cancelled, phase,
                   spawned, semaphore, wg, closed, results, inner, innerVal,
                   timedOut, late, retPath, extractRet, fetchRes, fetchStats,
                   gitStatus, statuses, showAll, filtered>>

\* A slip in the worker of fetchBatch: it counts its own success instead of
\* leaving the counting to the collect loop.
FetchReportCounts(r) == BatchOnly /\ phase = "fetch" /\ pc[r] = "work" /\ fetchRes' = [fetchRes EXCEPT ![r] = fetchFromOrigin("fetched")] /\ fetchStats' = [fetchStats EXCEPT !.successful = @ + 1] /\ results' = Append(results, r) /\ pc' = [pc EXCEPT ![r] = "release"] /\ UNCHANGED <<nRepos, maxConcurrency, fetch, isBare, remote, cancelled, phase, spawned, semaphore, wg, closed, inner, innerVal, timedOut, late, retPath, extractRet, gitStatus, statuses, showAll, filtered>>

\* fetchFromOrigin returns and the worker sends its result (the channel has
\* room for one result per repository, so the send never blocks).
FetchReport(r) ==
    /\ BatchOnly
    /\ phase = "fetch"
    /\ pc[r] = "work"
    /\ \E env \in PipelineFetchEnvs \cap EnvsOfRemote(remote[r]) :
         /\ env = "ctxDone" => cancelled
         /\ fetchRes' = [fetchRes EXCEPT ![r] = fetchFromOrigin(env)]
    /\ results' = Append(results, r)
    /\ pc' = [pc EXCEPT ![r] = "release"]
    /\ UNCHANGED <<nRepos, maxConcurrency, fetch, isBare, remote, cancelled, phase,
                   spawned, semaphore, wg, closed, inner, innerVal, timedOut,
                   late, retPath, extractRet, fetchStats, gitStatus, statuses,
                   showAll, filtered>>

FetchRelease(r) ==
    /\ BatchOnly
    /\ phase = "fetch"
    /\ ReleaseSlot(r)
    /\ UNCHANGED <<nRepos, maxConcurrency, fetch, isBare, remote, cancelled, phase,
                   spawned, wg, closed, results, inner, innerVal, timedOut,
                   late, retPath, extractRet, fetchRes, fetchStats, gitStatus,
                   statuses, showAll, filtered>>

FetchWorkerDone(r) ==
    /\ BatchOnly
    /\ phase = "fetch"
    /\ WorkerDone(r)
    /\ UNCHANGED <<nRepos, maxConcurrency, fetch, isBare, remote, cancelled, phase,
                   spawned, semaphore, closed, results, inner, innerVal,
                   timedOut, late, retPath, extractRet, fetchRes, fetchStats,
                   gitStatus, statuses, showAll, filtered>>

\* A slip in the closer goroutine: it stops waiting while one worker is left.
WaitReturnsEarly == wg <= 1

\* wg.Wait() returns: every goroutine that was added has called wg.Done().
WaitReturns == wg = 0

\* The closer goroutine: wg.Wait() returns and it closes the results channel.
FetchClose ==
    /\ BatchOnly
    /\ phase = "fetch"
    /\ Collecting
    /\ ~closed
    /\ WaitReturns
    /\ closed' = TRUE
    /\ UNCHANGED <<nRepos, maxConcurrency, fetch, isBare, remote, cancelled, phase,
                   spawned, pc, semaphore, wg, results, inner, innerVal,
                   timedOut, late, retPath, extractRet, fetchRes, fetchStats,
                   gitStatus, statuses, showAll, filtered>>

\* A slip in the collect loop of fetchBatch: the error is stored only into a
\* GitStatus that already exists.
StoreFetchErrorIfPresent(status, res) ==
    IF res.error # "" /\ status # NIL
    THEN [status EXCEPT !.fetchError = res.error]
    ELSE status

\* The default case of the collect loop of fetchBatch: the error of a failed
\* fetch is stored into the repository's GitStatus, created if nil.
StoreFetchError(status, res) ==
    IF res.error # ""
    THEN [(IF status = NIL THEN ZeroStatus ELSE status)
            EXCEPT !.fetchError = res.error]
    ELSE status

\* One turn of the collect loop of fetchBatch: a result is received (and
\* leaves the channel) and the statistics are updated.
FetchCollect ==
    /\ BatchOnly
    /\ phase = "fetch"
    /\ Collecting
    /\ results # <<>>
    /\ LET r   == Head(results)
           res == fetchRes[r]
       IN  /\ results' = Tail(results)
           /\ fetchRes' = [fetchRes EXCEPT ![r] = NIL]
           /\ IF res.skipped
              THEN /\ fetchStats' = [fetchStats EXCEPT !.skipped = @ + 1,
                                                       !.totalAttempted = @ - 1]
                   /\ UNCHANGED gitStatus
              ELSE IF res.success
              THEN /\ fetchStats' = [fetchStats EXCEPT !.successful = @ + 1]
                   /\ UNCHANGED gitStatus
              ELSE /\ fetchStats' = [fetchStats EXCEPT
                                       !.failed = @ + 1,
                                       !.failedRepos = Append(@, r)]
                   /\ gitStatus' = [gitStatus EXCEPT
                                      ![r] = StoreFetchError(@, res)]
    /\ UNCHANGED <<nRepos, maxConcurrency, fetch, isBare, remote, cancelled, phase,
                   spawned, pc, semaphore, wg, closed, inner, innerVal,
                   timedOut, late, retPath, extractRet, statuses, showAll,
                   filtered>>

\* The results channel is closed and drained: fetchBatch returns and the
\* status phase of ExtractBatch starts with fresh channels and WaitGroup.
FetchReturn ==
    /\ BatchOnly
    /\ phase = "fetch"
    /\ Collecting
    /\ closed
    /\ results = <<>>
    /\ phase' = "status"
    /\ spawned' = {}
    /\ pc' = [r \in Paths |-> "idle"]
    /\ semaphore' = 0
    /\ wg' = 0
    /\ closed' = FALSE
    /\ UNCHANGED <<nRepos, maxConcurrency, fetch, isBare, remote, cancelled, results,
                   inner, innerVal, timedOut, late, retPath, extractRet,
                   fetchRes, fetchStats, gitStatus, statuses, showAll, filtered>>

\* ---- ExtractBatch (status phase) and Extract

\* One turn of the spawn loop of ExtractBatch: wg.Add(1) and go func.
StatusSpawn(r) ==
    /\ BatchOnly
    /\ phase = "status"
    /\ r \in repos \ spawned
    /\ spawned' = spawned \cup {r}
    /\ wg' = wg + 1
    /\ pc' = [pc EXCEPT ![r] = "start"]
    /\ UNCHANGED <<nRepos, maxConcurrency, fetch, isBare, remote, cancelled, phase,
                   semaphore, closed, results, inner, innerVal, timedOut,
                   late, retPath, extractRet, fetchRes, fetchStats,
                   gitStatus, statuses, showAll, filtered>>

StatusCheckContext(r) ==
    /\ BatchOnly
    /\ phase = "status"
    /\ CheckContext(r)
    /\ UNCHANGED <<nRepos, maxConcurrency, fetch, isBare, remote, cancelled, phase,
                   spawned, semaphore, wg, closed, results, inner, innerVal,
                   timedOut, late, retPath, extractRet, fetchRes, fetchStats,
                   gitStatus, statuses, showAll, filtered>>

\* The worker is admitted and calls Extract, which derives the context with
\* the per-repository timeout and starts the goroutine running extractGitStatus.
StatusAcquire(r) ==
    /\ BatchOnly
    /\ phase = "status"
    /\ AcquireSlot(r)
    /\ inner' = [inner EXCEPT ![r] = "running"]
    /\ UNCHANGED <<nRepos, maxConcurrency, fetch, isBare, remote, cancelled, phase,
                   spawned, wg, closed, results, innerVal, timedOut, late,
                   retPath, extractRet, fetchRes, fetchStats, gitStatus,
                   statuses, showAll, filtered>>

StatusGateCancelled(r) ==
    /\ BatchOnly
    /\ phase = "status"
    /\ GateCancelled(r)
    /\ UNCHANGED <<nRepos, maxConcurrency, fetch, isBare, remote, cancelled, phase,
                   spawned, semaphore, wg, closed, results, inner, innerVal,
                   timedOut, late, retPath, extractRet, fetchRes, fetchStats,
                   gitStatus, statuses, showAll, filtered>>

\* The goroutine of Extract finishes extractGitStatus and sends on resultChan
\* or errorChan (each of capacity 1: the send never blocks). Once Extract has
\* returned nobody receives what is sent.
ExtractionFinishes(r) ==
    /\ BatchOnly
    /\ inner[r] = "running"
    /\ inner' = [inner EXCEPT ![r] = "sent"]
    /\ IF pc[r] = "work" /\ phase = "status"
       THEN \E f \in PipelineFacts(isBare[r]) :
               innerVal' = [innerVal EXCEPT ![r] = extractGitStatus(f)]
       ELSE UNCHANGED innerVal
    /\ UNCHANGED <<nRepos, maxConcurrency, fetch, isBare, remote, cancelled, phase,
                   spawned, pc, semaphore, wg, closed, results, timedOut,
                   late, retPath, extractRet, fetchRes, fetchStats,
                   gitStatus, statuses, showAll, filtered>>

\* The deadline of the context Extract derived passes (opts.Timeout > 0, as
\* runGitree and DefaultOptions set it).
TimeoutFires(r) ==
    /\ BatchOnly
    /\ phase = "status"
    /\ pc[r] = "work"
    /\ ~timedOut[r]
    /\ timedOut' = [timedOut EXCEPT ![r] = TRUE]
    /\ late' = [late EXCEPT ![r] = (inner[r] = "running")]
    /\ UNCHANGED <<nRepos, maxConcurrency, fetch, isBare, remote, cancelled, phase,
                   spawned, pc, semaphore, wg, closed, results, inner,
                   innerVal, retPath, extractRet, fetchRes, fetchStats,
                   gitStatus, statuses, showAll, filtered>>

\* A slip in Extract: its select waits on the deadline timer alone, not on
\* the context it was given.
ReadyCasesDeadlineOnly(r) == {c \in {"result", "error", "ctx"} : (c = "result" /\ inner[r] = "sent" /\ innerVal[r].err = "") \/ (c = "error" /\ inner[r] = "sent" /\ innerVal[r].err # "") \/ (c = "ctx" /\ timedOut[r])}

\* The select cases of Extract that are ready for repository r.
ReadyCases(r) ==
    {c \in {"result", "error", "ctx"} :
        \/ c = "result" /\ inner[r] = "sent" /\ innerVal[r].err = ""
        \/ c = "error" /\ inner[r] = "sent" /\ innerVal[r].err # ""
        \/ c = "ctx" /\ (timedOut[r] \/ cancelled)}

\* A slip in Extract: the ctx.Done() case hands back whatever was extracted.
SnapshotOfCaseNoPartial(r, c) ==
    CASE c = "result" -> innerVal[r].status
      [] c = "error"  -> PartialError(innerVal[r].err)
      [] OTHER        -> IF inner[r] = "sent" /\ innerVal[r].err = ""
                         THEN innerVal[r].status ELSE NIL

\* The snapshot Extract returns through select case c.
SnapshotOfCase(r, c) ==
    CASE c = "result" -> innerVal[r].status
      [] c = "error"  -> PartialError(innerVal[r].err)
      [] OTHER        -> PartialTimeout

\* The select of Extract takes one of its ready cases and Extract returns: what
\* was received is consumed and the deferred cancel() stops the deadline timer.
\* The worker then sends the result (the results channel has room for one
\* result per repository, so the send never blocks).
ExtractReturns(r) ==
    /\ BatchOnly
    /\ phase = "status"
    /\ pc[r] = "work"
    /\ \E c \in ReadyCases(r) :
         /\ retPath' = [retPath EXCEPT ![r] = c]
         /\ extractRet' = [extractRet EXCEPT ![r] = SnapshotOfCase(r, c)]
    /\ innerVal' = [innerVal EXCEPT ![r] = NIL]
    /\ timedOut' = [timedOut EXCEPT ![r] = FALSE]
    /\ results' = Append(results, r)
    /\ pc' = [pc EXCEPT ![r] = "release"]
    /\ UNCHANGED <<nRepos, maxConcurrency, fetch, isBare, remote, cancelled, phase,
                   spawned, semaphore, wg, closed, inner, late, fetchRes,
                   fetchStats, gitStatus, statuses, showAll, filtered>>

StatusRelease(r) ==
    /\ BatchOnly
    /\ phase = "status"
    /\ ReleaseSlot(r)
    /\ UNCHANGED <<nRepos, maxConcurrency, fetch, isBare, remote, cancelled, phase,
                   spawned, wg, closed, results, inner, innerVal, timedOut,
                   late, retPath, extractRet, fetchRes, fetchStats,
                   gitStatus, statuses, showAll, filtered>>

StatusWorkerDone(r) ==
    /\ BatchOnly
    /\ phase = "status"
    /\ WorkerDone(r)
    /\ UNCHANGED <<nRepos, maxConcurrency, fetch, isBare, remote, cancelled, phase,
                   spawned, semaphore, closed, results, inner, innerVal,
                   timedOut, late, retPath, extractRet, fetchRes, fetchStats,
                   gitStatus, statuses, showAll, filtered>>

\* The closer goroutine: wg.Wait() returns and it closes the results channel.
StatusClose ==
    /\ BatchOnly
    /\ phase = "status"
    /\ Collecting
    /\ ~closed
    /\ WaitReturns
    /\ closed' = TRUE
    /\ UNCHANGED <<nRepos, maxConcurrency, fetch, isBare, remote, cancelled, phase,
                   spawned, pc, semaphore, wg, results, inner, innerVal,
                   timedOut, late, retPath, extractRet, fetchRes, fetchStats,
                   gitStatus, statuses, showAll, filtered>>

\* The fetchError the fetch phase left on the repository is carried into the
\* extracted snapshot that replaces it.
MergeFetchError(status, repoStatus) ==
    IF repoStatus # NIL /\ repoStatus.fetchError # ""
    THEN [status EXCEPT !.fetchError = repoStatus.fetchError]
    ELSE status

\* A slip in the collect loop: a snapshot with an error is not stored.
StoredSnapshotDropErrors(status) ==
    IF status # NIL /\ status.error = "" THEN status ELSE NIL

\* What the collect loop of ExtractBatch stores for a received status
\* (NIL: nothing is stored).
StoredSnapshot(status) ==
    IF status # NIL THEN status ELSE NIL

\* One turn of the collect loop of ExtractBatch: a result is received (and
\* leaves the channel) and its status, if any, is stored in the map.
StatusCollect ==
    /\ BatchOnly
    /\ phase = "status"
    /\ Collecting
    /\ results # <<>>
    /\ LET r == Head(results)
           st == StoredSnapshot(extractRet[r])
       IN  /\ results' = Tail(results)
           /\ extractRet' = [extractRet EXCEPT ![r] = NIL]
           /\ IF st # NIL
              THEN statuses' = [statuses EXCEPT
                                  ![r] = MergeFetchError(st, gitStatus[r])]
              ELSE UNCHANGED statuses
    /\ UNCHANGED <<nRepos, maxConcurrency, fetch, isBare, remote, cancelled, phase,
                   spawned, pc, semaphore, wg, closed, inner, innerVal,
                   timedOut, late, retPath, fetchRes, fetchStats, gitStatus,
                   showAll, filtered>>

\* The results channel is closed and drained: ExtractBatch returns.
StatusReturn ==
    /\ BatchOnly
    /\ phase = "status"
    /\ Collecting
    /\ closed
    /\ results = <<>>
    /\ phase' = "attach"
    /\ UNCHANGED <<nRepos, maxConcurrency, fetch, isBare, remote, cancelled, spawned,
                   pc, semaphore, wg, closed, results, inner, innerVal,
                   timedOut, late, retPath, extractRet, fetchRes, fetchStats,
                   gitStatus, statuses, showAll, filtered>>

\* ---- runGitree after the batch

\* runGitree attaches every status of the map to its repository.
AttachStatuses ==
    /\ BatchOnly
    /\ phase = "attach"
    /\ gitStatus' = [r \in Paths |->
                        IF r \in repos /\ statuses[r] # NIL
                        THEN statuses[r] ELSE gitStatus[r]]
    /\ phase' = "filter"
    /\ UNCHANGED <<nRepos, maxConcurrency, fetch, isBare, remote, cancelled, spawned,
                   pc, semaphore, wg, closed, results, inner, innerVal,
                   timedOut, late, retPath, extractRet, fetchRes, fetchStats,
                   statuses, showAll, filtered>>

\* scanResult.Repositories, in scan order, with what is attached to each.
RepoList == [i \in 1..nRepos |-> Repository(i, isBare[i], FALSE, gitStatus[i])]

\* runGitree filters the list by the --all flag.
FilterStep ==
    /\ BatchOnly
    /\ phase = "filter"
    /\ \E all \in BOOLEAN :
         /\ showAll' = all
         /\ filtered' = FilterRepositories(RepoList, all)
    /\ phase' = "done"
    /\ UNCHANGED <<nRepos, maxConcurrency, fetch, isBare, remote, cancelled, spawned,
                   pc, semaphore, wg, closed, results, inner, innerVal,
                   timedOut, late, retPath, extractRet, fetchRes, fetchStats,
                   gitStatus, statuses>>

Next ==
    \/ Cancel
    \/ \E r \in Paths : FetchSpawn(r)
    \/ \E r \in Paths : FetchCheckContext(r)
    \/ \E r \in Paths : FetchAcquire(r)
    \/ \E r \in Paths : FetchGateCancelled(r)
    \/ \E r \in Paths : FetchReport(r)
    \/ \E r \in Paths : FetchRelease(r)
    \/ \E r \in Paths : FetchWorkerDone(r)
    \/ FetchClose
    \/ FetchCollect
    \/ FetchReturn
    \/ \E r \in Paths : StatusSpawn(r)
    \/ \E r \in Paths : StatusCheckContext(r)
    \/ \E r \in Paths : StatusAcquire(r)
    \/ \E r \in Paths : StatusGateCancelled(r)
    \/ \E r \in Paths : ExtractionFinishes(r)
    \/ \E r \in Paths : TimeoutFires(r)
    \/ \E r \in Paths : ExtractReturns(r)
    \/ \E r \in Paths : StatusRelease(r)
    \/ \E r \in Paths : StatusWorkerDone(r)
    \/ StatusClose
    \/ StatusCollect
    \/ StatusReturn
    \/ AttachStatuses
    \/ FilterStep

Init == BatchInit /\ FilterIdle /\ DetectIdle /\ ScanIdle /\ FetchIdle /\ CallsIdle

Spec == Init /\ [][Next]_vars

\* ---- ExtractBatch alone, under the scheduling the Go runtime gives it

\* ExtractBatch is called without a fetch phase before it.
LiveInit == Init /\ fetch = FALSE

LiveNext ==
    \/ Cancel
    \/ \E r \in Paths : StatusSpawn(r)
    \/ \E r \in Paths : StatusCheckContext(r)
    \/ \E r \in Paths : StatusAcquire(r)
    \/ \E r \in Paths : StatusGateCancelled(r)
    \/ \E r \in Paths : ExtractionFinishes(r)
    \/ \E r \in Paths : TimeoutFires(r)
    \/ \E r \in Paths : ExtractReturns(r)
    \/ \E r \in Paths : StatusRelease(r)
    \/ \E r \in Paths : StatusWorkerDone(r)
    \/ StatusClose
    \/ StatusCollect
    \/ StatusReturn
    \/ AttachStatuses
    \/ FilterStep

\* A runnable goroutine is eventually scheduled and the deadline timer of a
\* running Extract eventually fires. Nothing makes the context be cancelled,
\* and nothing makes extractGitStatus ever finish.
Fairness ==
    /\ \A r \in Paths :
         /\ WF_vars(StatusSpawn(r)) /\ WF_vars(StatusCheckContext(r))
         /\ WF_vars(StatusAcquire(r)) /\ WF_vars(StatusGateCancelled(r))
         /\ WF_vars(TimeoutFires(r)) /\ WF_vars(ExtractReturns(r))
         /\ WF_vars(StatusRelease(r)) /\ WF_vars(StatusWorkerDone(r))
    /\ WF_vars(StatusClose) /\ WF_vars(StatusCollect) /\ WF_vars(StatusReturn)
    /\ WF_vars(AttachStatuses) /\ WF_vars(FilterStep)

LiveSpec == LiveInit /\ [][LiveNext]_vars /\ Fairness

\* ------------------------------------------------- claims on the pipeline

\* The units admitted through the gate that have not yet released their slot.
InFlight == {r \in Paths : pc[r] \in {"work", "release"}}

\* Repositories whose fetch the collect loop of fetchBatch counted as failed.
FetchFailed ==
    IF fetchStats = NIL THEN {}
    ELSE {fetchStats.failedRepos[i] : i \in DOMAIN fetchStats.failedRepos}

\* C1: during ExtractBatch and during fetchBatch the number of units admitted
\* through the gate and not yet finished never exceeds MaxConcurrency.
C1_GateBound == Cardinality(InFlight) <= maxConcurrency

\* C1 witness: the gate is full while another unit waits for admission.
C1_Witness ==
    /\ phase = "status"
    /\ maxConcurrency >= 1
    /\ Cardinality(InFlight) = maxConcurrency
    /\ \E r \in Paths : pc[r] = "gate"

\* C2: if the batch is never cancelled and MaxConcurrency >= 1, ExtractBatch
\* eventually returns with a snapshot for every input repository, whatever
\* times out or fails.
C2_BatchCompletes ==
    (maxConcurrency >= 1 /\ []~cancelled)
        => <>(phase = "attach" /\ \A r \in repos : statuses[r] # NIL)

\* C2 witness: the batch returned, not cancelled, with a snapshot for each of
\* two repositories, one of them the partial snapshot of a timeout.
C2_Witness ==
    /\ phase = "attach" /\ ~cancelled /\ nRepos = 2
    /\ \A r \in repos : statuses[r] # NIL
    /\ \E r \in repos : statuses[r].error = "timeout"
    /\ \E r \in repos : statuses[r].error = ""

Collected(r) ==
    /\ retPath[r] # "none"
    /\ \A i \in DOMAIN results : results[i] # r

CarriesExtracted(r) ==
    LET s == [gitStatus[r] EXCEPT !.fetchError = ""]
        X == {extractGitStatus(f) : f \in PipelineFacts(isBare[r])}
    IN  CASE retPath[r] = "result" -> s \in {x.status : x \in {y \in X : y.err = ""}}
          [] retPath[r] = "error"  -> s \in {PartialError(x.err) : x \in {y \in X : y.err # ""}}
          [] retPath[r] = "ctx"    -> s = PartialTimeout
          [] OTHER                 -> s = ZeroStatus

UnknownRecords ==
    {NIL, Repository(1, FALSE, FALSE, NIL)} \cup
    {Repository(1, FALSE, FALSE,
                [ZeroStatus EXCEPT !.branch = b, !.hasRemote = TRUE, !.error = e]) :
        b \in {"main", "master", "N/A"},
        e \in {"timeout", "failed to open repository"}}

\* Repository r of the batch lacks a successfully extracted status.
LacksStatus(r) ==
    \/ gitStatus[r] = NIL
    \/ gitStatus[r].error # ""
    \/ retPath[r] # "result"

AllStatuses ==
    [branch : {"main", "master", "feature"}, isDetached : BOOLEAN,
     hasRemote : BOOLEAN, ahead : -MaxAhead..MaxAhead,
     behind : -MaxAhead..MaxAhead, hasStashes : BOOLEAN, hasChanges : BOOLEAN,
     error : {"", "timeout"}, fetchError : {"", "fetch failed after retries"}]

AllRecords ==
    {NIL, Repository(1, FALSE, FALSE, NIL)} \cup
    {Repository(1, FALSE, FALSE, st) : st \in AllStatuses}

\* The records the longer lists are built from: a missing record, one without
\* snapshot, two clean ones, a dirty one, a timed-out one.
ListRecords ==
    {NIL,
     Repository(1, FALSE, FALSE, NIL),
     Repository(2, FALSE, FALSE, [ZeroStatus EXCEPT !.branch = "main", !.hasRemote = TRUE]),
     Repository(3, TRUE, FALSE, [ZeroStatus EXCEPT !.branch = "master", !.hasRemote = TRUE]),
     Repository(4, FALSE, FALSE, [ZeroStatus EXCEPT !.branch = "feature", !.hasChanges = TRUE]),
     Repository(5, FALSE, FALSE, PartialTimeout)}

\* A caller is about to call FilterRepositories(fInput, {ShowAll: fShowAll}).
FilterInit ==
    /\ BatchIdle /\ DetectIdle /\ ScanIdle /\ FetchIdle /\ CallsIdle
    /\ \/ \E rec \in AllRecords : fInput = <<rec>>
       \/ \E n \in 0..MaxLen : fInput \in [1..n -> ListRecords]
    /\ fBefore = fInput
    /\ fShowAll \in BOOLEAN
    /\ fOutput = <<>>
    /\ fDone = FALSE

\* The call: FilterRepositories reads its argument and returns a list.
ApplyFilter ==
    /\ ~fDone
    /\ fOutput' = FilterRepositories(fInput, fShowAll)
    /\ fDone' = TRUE
    /\ UNCHANGED <<fInput, fBefore, fShowAll>>
    /\ UNCHANGED <<batchVars, detectVars, scanVars, backoffVars, retryVars, callVars>>

FilterNext == ApplyFilter

FilterSpec == FilterInit /\ [][FilterNext]_vars

\* Clean as the classifier is described: a record with a snapshot, without
\* statusError, on main or master, without changes or stashes, with a remote,
\* ahead = 0, behind = 0, not detached.
CleanAsStated(repo) ==
    /\ repo # NIL
    /\ repo.gitStatus # NIL
    /\ repo.gitStatus.error = ""
    /\ repo.gitStatus.branch \in {"main", "master"}
    /\ ~repo.gitStatus.hasChanges
    /\ ~repo.gitStatus.hasStashes
    /\ repo.gitStatus.hasRemote
    /\ repo.gitStatus.ahead = 0
    /\ repo.gitStatus.behind = 0
    /\ ~repo.gitStatus.isDetached

\* C6: for every record, those that break the snapshot invariants included,
\* IsClean is true exactly when the record and its snapshot exist, statusError
\* is empty, the branch is main or master, there are no changes and no
\* stashes, there is a remote, ahead = 0, behind = 0 and HEAD is not detached.
C6_CleanIffStated ==
    fDone => \A i \in DOMAIN fInput : IsClean(fInput[i]) <=> CleanAsStated(fInput[i])

\* The positions of the records of s that are not clean.
KeptPositions(s) == {i \in DOMAIN s : ~IsClean(s[i])}

\* The k-th smallest member of the set of positions P.
KthOf(P, k) == CHOOSE i \in P : Cardinality({j \in P : j < i}) = k - 1

\* C8: with ShowAll false FilterRepositories returns exactly the records that
\* are not clean, in their original order, and with ShowAll true the list it
\* was given; the input list is not modified.
C8_FilterSubsequence ==
    fDone =>
        /\ fInput = fBefore
        /\ fShowAll => fOutput = fBefore
        /\ ~fShowAll =>
             /\ Len(fOutput) = Cardinality(KeptPositions(fBefore))
             /\ \A k \in 1..Len(fOutput) :
                    fOutput[k] = fBefore[KthOf(KeptPositions(fBefore), k)]

\* C8 witness: of two records the clean first one is dropped and the second
\* one, which is not clean, is returned.
C8_Witness ==
    /\ fDone /\ ~fShowAll /\ Len(fInput) >= 2
    /\ IsClean(fInput[1]) /\ ~IsClean(fInput[2])
    /\ Len(fOutput) = Len(fInput) - 1 /\ fOutput[1] = fInput[2]

\* ---------------------------------------------- IsGitRepository on its own

\* IsGitRepository is about to be called on a directory with this layout.
DetectInit ==
    /\ BatchIdle /\ FilterIdle /\ ScanIdle /\ FetchIdle /\ CallsIdle
    /\ dMarkers \in [git : Kinds, head : Kinds, refs : Kinds, objs : Kinds]
    /\ dResult = NIL

Detect ==
    /\ dResult = NIL
    /\ dResult' = IsGitRepository(dMarkers)
    /\ UNCHANGED dMarkers
    /\ UNCHANGED <<batchVars, filterVars, scanVars, backoffVars, retryVars, callVars>>

DetectNext == Detect

DetectSpec == DetectInit /\ [][DetectNext]_vars

\* C9: IsGitRepository answers (repository, not bare) exactly when .git is a
\* directory; otherwise (repository, bare) exactly when HEAD exists and refs
\* and objects are directories; otherwise not a repository. Two of the three
\* bare markers are not enough, and a .git directory beside a bare layout
\* gives not bare.
C9_Detection ==
    dResult # NIL =>
        LET gitDir == dMarkers.git = "dir"
            bareLayout == /\ dMarkers.head \in {"file", "dir"}
                          /\ dMarkers.refs = "dir"
                          /\ dMarkers.objs = "dir"
        IN  /\ dResult = Detected(TRUE, FALSE) <=> gitDir
            /\ dResult = Detected(TRUE, TRUE) <=> (~gitDir /\ bareLayout)
            /\ dResult = Detected(FALSE, FALSE) <=> (~gitDir /\ ~bareLayout)

\* C9 witness: a directory with a .git directory and a full bare layout has
\* been classified as a repository that is not bare.
C9_Witness ==
    /\ dMarkers = [git |-> "dir", head |-> "file", refs |-> "dir", objs |-> "dir"]
    /\ dResult = Detected(TRUE, FALSE)

\* ------------------------------------------------------------------- Scan

\* What an entry of the tree is: missing; a file; a symbolic link to a
\* directory that is no repository (an ancestor of the link included, which
\* makes a cycle); a symbolic link to a work tree that lies outside the tree;
\* a symbolic link whose target is missing; a directory that is removed once
\* its parent has been listed; a plain directory; a work tree (it holds a
\* .git directory); a bare repository (it holds HEAD, refs/ and objects/); a
\* directory that cannot be listed for lack of permission; one whose listing
\* fails with an I/O error.
NodeTypes ==
    {"absent", "file", "link", "linkrepo", "dangling", "gone", "plain", "repo", "bare", "denied", "broken"}

\* The entries that are symbolic links.
LinkTypes == {"link", "linkrepo", "dangling"}

\* The entries ReadDir reports as directories ("gitdir" is the .git directory
\* of a work tree).
DirTypes == {"gone", "plain", "repo", "bare", "denied", "broken", "gitdir"}

Parent(p) == SubSeq(p, 1, Len(p) - 1)

IsStrictPrefix(p, q) == Len(p) < Len(q) /\ SubSeq(q, 1, Len(p)) = p

\* The type of any path: the entries of TreePaths as the tree has them, and
\* below them what a work tree and a bare repository hold.
RECURSIVE TypeOf(_)
TypeOf(p) ==
    IF p \in TreePaths THEN tree[p]
    ELSE IF p = Root THEN "absent"
    ELSE LET parent == TypeOf(Parent(p))
             name == p[Len(p)]
         IN  CASE name = ".git" /\ parent \in {"repo", "linkrepo"} -> "gitdir"
               [] name = "HEAD" /\ parent \in {"bare", "gitdir"} -> "file"
               [] name \in {"objects", "refs"} /\ parent \in {"bare", "gitdir"} -> "plain"
               [] OTHER -> "absent"

\* os.Stat on a path (it follows symbolic links).
StatKind(p) ==
    CASE TypeOf(p) \in {"absent", "gone", "dangling"} -> "none"
      [] TypeOf(p) = "file" -> "file"
      [] OTHER -> "dir"

\* What IsGitRepository finds when it stats the four markers of a directory.
Markers(p) ==
    [git  |-> StatKind(Append(p, ".git")),
     head |-> StatKind(Append(p, "HEAD")),
     refs |-> StatKind(Append(p, "refs")),
     objs |-> StatKind(Append(p, "objects"))]

\* The entry names there are, in the order ReadDir sorts them.
EntryNames == <<".git", "HEAD", "a", "b", "objects", "refs">>

\* os.ReadDir of a directory that can be listed: its entries, sorted by name.
ReadDir(p) ==
    LET present == SelectSeq(EntryNames, LAMBDA n : TypeOf(Append(p, n)) # "absent")
    IN  [i \in 1..Len(present) |-> Append(p, present[i])]

\* The inode number shouldVisit reads for a path.
Inode(p) == IF p \in TreePaths THEN inoAlias[p] ELSE p

\* ctx.Err() of the context Scan was given.
CtxErr ==
    IF scanCtx = "canceled" THEN "context canceled"
    ELSE "context deadline exceeded"

\* shouldVisit. WalkDir hands walkFunc the entry type ReadDir reported, so the
\* path it is called on is a directory itself and never a symbolic link.
shouldVisit(path) ==
    IF TypeOf(path) = "gone"
    THEN [visit |-> FALSE, isSymlink |-> FALSE, err |-> "no such file or directory",
          visited |-> visited]
    ELSE IF Inode(path) \in visited
    THEN [visit |-> FALSE, isSymlink |-> FALSE, err |-> "", visited |-> visited]
    ELSE [visit |-> TRUE, isSymlink |-> FALSE, err |-> "",
          visited |-> visited \cup {Inode(path)}]

\* What one call of walkFunc returns and leaves in the scanner.
WalkOut(ret, rs, es, vs, n) ==
    [ret |-> ret, repositories |-> rs, errors |-> es, visited |-> vs, dirCount |-> n]

\* walkFunc(ctx, path, d, err), returning foundRet when it has recorded a
\* repository.
walkFuncReturning(foundRet, path, err) ==
    IF scanCtx # "live"
    THEN WalkOut(CtxErr, repositories, errors, visited, dirCount)
    ELSE IF err # ""
    THEN IF err = "permission denied"
         THEN WalkOut("SkipDir", repositories,
                      Append(errors, [kind |-> "permission denied", path |-> path]),
                      visited, dirCount)
         ELSE WalkOut(err, repositories, errors, visited, dirCount)
    ELSE IF TypeOf(path) \notin DirTypes
    THEN WalkOut("nil", repositories, errors, visited, dirCount)
    ELSE
    LET sv == shouldVisit(path)
        g  == IsGitRepository(Markers(path))
    IN  IF sv.err # ""
        THEN WalkOut("SkipDir", repositories,
                     Append(errors, [kind |-> "error checking path", path |-> path]),
                     sv.visited, dirCount + 1)
        ELSE IF ~sv.visit
        THEN WalkOut("SkipDir", repositories, errors, sv.visited, dirCount + 1)
        ELSE IF g.isRepo
        THEN WalkOut(foundRet,
                     Append(repositories, Repository(path, g.isBare, sv.isSymlink, NIL)),
                     errors, sv.visited, dirCount + 1)
        ELSE WalkOut("nil", repositories, errors, sv.visited, dirCount + 1)

\* A slip in walkFunc: it returns nil after recording a repository, so WalkDir
\* goes on into the repository.
walkFuncDescends(path, err) == walkFuncReturning("nil", path, err)

\* A slip in walkFunc: it hands a permission error back to WalkDir like any
\* other error instead of recording it and skipping the directory.
walkFuncPermissionFatal(path, err) == IF scanCtx = "live" /\ err = "permission denied" THEN WalkOut(err, repositories, errors, visited, dirCount) ELSE walkFuncReturning("SkipDir", path, err)

walkFunc(path, err) == walkFuncReturning("SkipDir", path, err)

\* The trees: an entry below something that is not a directory is missing (what
\* lies behind a symbolic link belongs to its target), and the root is there
\* or not when Scan starts.
ValidTrees ==
    {t \in [TreePaths -> NodeTypes] :
        /\ t[Root] # "gone"
        /\ \A p \in TreePaths \ {Root} :
              t[Parent(p)] \in {"absent", "file", "gone"} \cup LinkTypes => t[p] = "absent"}

\* Inode numbers are unique, or entry b has the inode number of a/a (they
\* lie on different file systems).
InodeMaps ==
    {[p \in TreePaths |-> p],
     [p \in TreePaths |-> IF p = <<"b">> THEN <<"a", "a">> ELSE p]}

\* Scan(ctx, opts) has been called.
ScanInit ==
    /\ BatchIdle /\ FilterIdle /\ DetectIdle /\ FetchIdle /\ CallsIdle
    /\ tree \in ValidTrees
    /\ inoAlias \in InodeMaps
    /\ scanCtx = "live" /\ scanPc = "start" /\ todo = <<>> /\ walkErr = ""
    /\ repositories = <<>> /\ errors = <<>> /\ visited = {} /\ dirCount = 0
    /\ scanResult = NIL

ScanOnly == UNCHANGED <<batchVars, filterVars, detectVars, backoffVars, retryVars, callVars>>

\* The context of the scan is cancelled or its deadline passes.
ScanCancel ==
    /\ ScanOnly
    /\ scanCtx = "live"
    /\ scanPc \in {"start", "visit", "read"}
    /\ scanCtx' \in {"canceled", "deadline"}
    /\ UNCHANGED <<tree, inoAlias, scanPc, todo, walkErr, repositories, errors,
                   visited, dirCount, scanResult>>

\* Scan validates the root path and starts WalkDir on it.
ScanStart ==
    /\ ScanOnly
    /\ scanPc = "start"
    /\ IF StatKind(Root) = "none"
       THEN scanPc' = "fatal" /\ walkErr' = "cannot access root path" /\ todo' = <<>>
       ELSE IF StatKind(Root) # "dir"
       THEN scanPc' = "fatal" /\ walkErr' = "not a directory" /\ todo' = <<>>
       ELSE scanPc' = "visit" /\ walkErr' = "" /\ todo' = <<Root>>
    /\ UNCHANGED <<tree, inoAlias, scanCtx, repositories, errors, visited,
                   dirCount, scanResult>>

\* A slip in the walk: it does not move past an entry that is no directory.
SkipEntryStays(entries) == entries

\* WalkDir is done with an entry that is no directory (a file or a symbolic
\* link, which it never enters) and goes on with the entries after it.
SkipEntry(entries) == Tail(entries)


\* WalkDir passes the next entry to walkFunc: on nil it goes on (into the
\* entry when it is a directory), on SkipDir it leaves the directory out, on
\* any other error it stops and returns the error.
WalkVisit ==
    /\ ScanOnly
    /\ scanPc = "visit"
    /\ todo # <<>>
    /\ LET path == Head(todo)
           out == walkFunc(path, "")
       IN  /\ repositories' = out.repositories
           /\ errors' = out.errors
           /\ visited' = out.visited
           /\ dirCount' = out.dirCount
           /\ CASE out.ret = "nil" /\ TypeOf(path) \in DirTypes ->
                     scanPc' = "read" /\ UNCHANGED <<todo, walkErr>>
                [] out.ret = "nil" /\ TypeOf(path) \notin DirTypes ->
                     scanPc' = "visit" /\ todo' = SkipEntry(todo) /\ UNCHANGED walkErr
                [] out.ret = "SkipDir" ->
                     scanPc' = "visit" /\ todo' = Tail(todo) /\ UNCHANGED walkErr
                [] OTHER ->
                     scanPc' = "visit" /\ todo' = <<>> /\ walkErr' = out.ret
    /\ UNCHANGED <<tree, inoAlias, scanCtx, scanResult>>

\* WalkDir lists the directory walkFunc let it enter; when the listing fails
\* it calls walkFunc again on the directory, with the error.
WalkRead ==
    /\ ScanOnly
    /\ scanPc = "read"
    /\ LET path == Head(todo)
           err == CASE TypeOf(path) = "denied" -> "permission denied"
                    [] TypeOf(path) = "broken" -> "input/output error"
                    [] OTHER -> ""
           out == walkFunc(path, err)
       IN  IF err = ""
           THEN /\ todo' = ReadDir(path) \o Tail(todo)
                /\ UNCHANGED <<walkErr, repositories, errors, visited, dirCount>>
           ELSE /\ repositories' = out.repositories
                /\ errors' = out.errors
                /\ visited' = out.visited
                /\ dirCount' = out.dirCount
                /\ IF out.ret \in {"nil", "SkipDir"}
                   THEN todo' = Tail(todo) /\ UNCHANGED walkErr
                   ELSE todo' = <<>> /\ walkErr' = out.ret
    /\ scanPc' = "visit"
    /\ UNCHANGED <<tree, inoAlias, scanCtx, scanResult>>

\* A slip in Scan: the two counters are written to each other's field.
ScanResultSwapped(rs, n, es) == [repositories |-> rs, totalScanned |-> Len(rs), totalRepos |-> n, errors |-> es]

\* The ScanResult Scan builds from the scanner's list of repositories, its
\* counter of directories and its list of errors.
ScanResult(rs, n, es) ==
    [repositories |-> rs, totalScanned |-> n, totalRepos |-> Len(rs), errors |-> es]

\* WalkDir has returned: Scan fails on an error other than context.Canceled
\* and otherwise returns the result it has built.
ScanReturn ==
    /\ ScanOnly
    /\ scanPc = "visit"
    /\ todo = <<>>
    /\ IF walkErr \notin {"", "context canceled"}
       THEN scanPc' = "fatal" /\ scanResult' = NIL
       ELSE /\ scanPc' = "done"
            /\ scanResult' = ScanResult(repositories, dirCount, errors)
    /\ UNCHANGED <<tree, inoAlias, scanCtx, todo, walkErr, repositories, errors,
                   visited, dirCount>>

ScanNext ==
    \/ ScanCancel
    \/ ScanStart
    \/ WalkVisit
    \/ WalkRead
    \/ ScanReturn

ScanSpec == ScanInit /\ [][ScanNext]_vars

\* C10: no reported repository path lies below another reported path; a
\* repository inside another repository is never reported, nor is the .git
\* directory of a work tree.
C10_NoNestedReports ==
    /\ \A i, j \in DOMAIN repositories :
          ~IsStrictPrefix(repositories[i].path, repositories[j].path)
    /\ \A i \in DOMAIN repositories :
          LET p == repositories[i].path
          IN  /\ p # Root => p[Len(p)] # ".git"
              /\ \A k \in 0..(Len(p) - 1) :
                    ~IsGitRepository(Markers(SubSeq(p, 1, k))).isRepo

\* C10 witness: the scan is over; a is a work tree that holds another
\* repository, b is a bare repository, and exactly a and b are reported.
C10_Witness ==
    /\ scanPc = "done" /\ scanCtx = "live"
    /\ tree[<<"a">>] = "repo" /\ tree[<<"a", "a">>] \in {"repo", "bare"}
    /\ tree[<<"b">>] = "bare"
    /\ [i \in DOMAIN repositories |-> repositories[i].path] = << <<"a">>, <<"b">> >>

\* Scan has returned.
ScanOver == scanPc \in {"done", "fatal"}

\* The cancellation of the context reached the walk: a call of walkFunc found
\* the context done and WalkDir stopped on its error.
WalkAborted == walkErr \in {"context canceled", "context deadline exceeded"}

\* C11: when the cancellation of the context stops the walk, Scan returns a
\* fatal error and no result; what was found before is never returned.
C11_AbortIsFatal ==
    (ScanOver /\ WalkAborted) => (scanPc = "fatal" /\ scanResult = NIL)

\* The root is a directory that can be listed.
RootReadable == StatKind(Root) = "dir" /\ tree[Root] \notin {"denied", "broken"}

\* C12: Scan fails only on a root that is missing or no directory; with a
\* root that is a readable directory and a context that stays live, whatever
\* fails below the root (a permission error or any other read error) is
\* recorded and Scan still returns a result.
C12_DescendantsNeverFatal ==
    (ScanOver /\ scanCtx = "live" /\ RootReadable) =>
        (scanPc = "done" /\ scanResult # NIL)

\* The entries WalkDir comes to: those whose ancestors are all directories
\* it lists and goes into.
Reached(p) ==
    /\ p \in TreePaths /\ tree[p] # "absent"
    /\ \A k \in 0..(Len(p) - 1) : tree[SubSeq(p, 1, k)] = "plain"

\* How often path p occurs in errors with the given kind.
ErrorCount(kind, p) ==
    Cardinality({i \in DOMAIN errors : errors[i] = [kind |-> kind, path |-> p]})

\* How often path p is reported.
ReportCount(p) ==
    Cardinality({i \in DOMAIN repositories : repositories[i].path = p})

\* Every entry has an inode number of its own.
UniqueInodes == \A p \in TreePaths : inoAlias[p] = p

\* C13: a directory below the root that cannot be listed for lack of
\* permission costs one recorded scan error and its own subtree only: with a
\* live context, inode numbers of their own and no other read failure, the
\* scan returns a result that has exactly one permission error for each such
\* directory it came to, reports nothing below it, and reports every
\* repository it comes to in the other subtrees exactly once.
C13_PermissionSkipsSubtree ==
    (/\ ScanOver /\ scanCtx = "live" /\ UniqueInodes
     /\ tree[Root] = "plain"
     /\ \A p \in TreePaths : Reached(p) => tree[p] # "broken") =>
        /\ scanPc = "done"
        /\ \A p \in TreePaths \ {Root} :
              /\ ErrorCount("permission denied", p)
                    = IF Reached(p) /\ tree[p] = "denied" THEN 1 ELSE 0
              /\ ReportCount(p)
                    = IF Reached(p) /\ tree[p] \in {"repo", "bare"} THEN 1 ELSE 0
        /\ \A i \in DOMAIN repositories : repositories[i].path \in TreePaths

\* C13 witness: the scan is over; a could not be listed, which is the one
\* recorded error, the repository below a is not reported and the work tree
\* b after it is.
C13_Witness ==
    /\ scanPc = "done" /\ scanCtx = "live" /\ UniqueInodes
    /\ tree[Root] = "plain" /\ tree[<<"a">>] = "denied"
    /\ tree[<<"a", "a">>] = "repo" /\ tree[<<"b">>] = "repo"
    /\ errors = <<[kind |-> "permission denied", path |-> <<"a">>]>>
    /\ [i \in DOMAIN scanResult.repositories |-> scanResult.repositories[i].path] = << <<"b">> >>

\* C14: when the root is a directory that cannot be listed for lack of
\* permission, Scan returns a fatal error and no result.
C14_UnreadableRootFatal ==
    (ScanOver /\ scanCtx = "live" /\ tree[Root] = "denied") =>
        (scanPc = "fatal" /\ scanResult = NIL)

\* Scan runs in one goroutine that is never blocked: the validation of the
\* root, each step of WalkDir and the return happen when they can. Nothing
\* makes a cancellation happen.
ScanFairness ==
    /\ WF_vars(ScanStart)
    /\ WF_vars(WalkVisit)
    /\ WF_vars(WalkRead)
    /\ WF_vars(ScanReturn)

ScanLiveSpec == ScanInit /\ [][ScanNext]_vars /\ ScanFairness

\* C15: Scan terminates on every finite tree, trees with a symbolic link back
\* to an ancestor included: every run comes to the return of Scan.
C15_ScanTerminates == <>ScanOver

\* C15 witness: Scan has returned from a tree in which a/a is a symbolic link
\* to a directory (to a or to the root: a cycle) and b is one as well, after
\* it visited the root and a only.
C15_Witness ==
    /\ scanPc = "done" /\ scanCtx = "live"
    /\ tree[Root] = "plain" /\ tree[<<"a">>] = "plain"
    /\ tree[<<"a", "a">>] = "link" /\ tree[<<"b">>] = "link"
    /\ dirCount = 2 /\ todo = <<>>

\* C16: an entry that is a symbolic link to a directory not visited before
\* is resolved and examined: when the scan of a live context is over, every
\* link to a work tree it came to is reported, with isSymlink set.
C16_SymlinkedRepoReported ==
    (scanPc = "done" /\ scanCtx = "live") =>
        \A p \in TreePaths \ {Root} :
            (Reached(p) /\ tree[p] = "linkrepo") =>
                \E i \in DOMAIN repositories :
                    repositories[i].path = p /\ repositories[i].isSymlink

\* --------------------------------------------------------- calculateBackoff

\* The largest attempt number calculateBackoff is called with.
MaxAttempt == 70

\* An int64 is kept as its eight bytes in two's complement, the lowest first,
\* so that products wrap as they do in the program.
Int64FromNat(n) == [i \in 1..8 |-> IF i <= 4 THEN (n \div (256 ^ (i - 1))) % 256 ELSE 0]

\* 2^k for k in 0..62.
Int64Pow2(k) == [i \in 1..8 |-> IF i = (k \div 8) + 1 THEN 2 ^ (k % 8) ELSE 0]

MinInt64 == [i \in 1..8 |-> IF i = 8 THEN 128 ELSE 0]

MaxInt64 == [i \in 1..8 |-> IF i = 8 THEN 127 ELSE 255]

\* The sum of the byte products that fall into byte j of a product.
RECURSIVE Int64Column(_, _, _, _)
Int64Column(x, y, j, i) ==
    IF i > j THEN 0 ELSE x[i] * y[j - i + 1] + Int64Column(x, y, j, i + 1)

RECURSIVE Int64MulFrom(_, _, _, _)
Int64MulFrom(x, y, j, carry) ==
    IF j > 8 THEN <<>>
    ELSE LET col == carry + Int64Column(x, y, j, 1)
         IN  <<col % 256>> \o Int64MulFrom(x, y, j + 1, col \div 256)

\* x * y on int64: the low 64 bits of the product.
Int64Mul(x, y) == Int64MulFrom(x, y, 1, 0)

Int64Negative(x) == x[8] >= 128

RECURSIVE Int64BelowFrom(_, _, _)
Int64BelowFrom(x, y, i) ==
    IF i = 0 THEN FALSE
    ELSE IF x[i] # y[i] THEN x[i] < y[i]
    ELSE Int64BelowFrom(x, y, i - 1)

\* x < y on int64.
Int64Less(x, y) ==
    IF Int64Negative(x) # Int64Negative(y) THEN Int64Negative(x)
    ELSE Int64BelowFrom(x, y, 8)

\* The builtin min on two int64.
Int64Min(x, y) == IF Int64Less(y, x) THEN y ELSE x

\* A time.Duration: a number of nanoseconds in an int64.
Duration(int64) == [ns |-> int64]

\* 500 * time.Millisecond
baseBackoffDelay == Int64Mul(Int64FromNat(500), Int64FromNat(1000000))

\* 10 * time.Second
maxBackoffDelay == Int64Mul(Int64FromNat(10), Int64FromNat(1000000000))

backoffExponentTwo == 2

\* What the conversion of a float64 that no int64 holds gives: the smallest
\* int64 on some builds, the largest on others.
Builds == {"min", "max"}

\* time.Duration(math.Pow(backoffExponentTwo, float64(k))) for k >= 0: the
\* power is exact in a float64 (or +Inf), and it fits an int64 up to 2^62.
DurationOfPow(k, build) ==
    IF k <= 62 THEN Int64Pow2(k)
    ELSE IF build = "min" THEN MinInt64 ELSE MaxInt64

\* A slip in calculateBackoff: the exponent is attempt, not attempt - 1.
calculateBackoffDoubled(attempt, build) == Duration(Int64Min(Int64Mul(baseBackoffDelay, DurationOfPow(attempt, build)), maxBackoffDelay))

\* calculateBackoff(attempt), attempt >= 1.
calculateBackoff(attempt, build) ==
    LET delay == Int64Mul(baseBackoffDelay, DurationOfPow(attempt - 1, build))
    IN  Duration(Int64Min(delay, maxBackoffDelay))

BackoffInit ==
    /\ BatchIdle /\ FilterIdle /\ DetectIdle /\ ScanIdle /\ RetryIdle /\ CallsIdle
    /\ bAttempt \in 1..MaxAttempt
    /\ bBuild \in Builds
    /\ bDelay = NIL

\* The call.
Backoff ==
    /\ bDelay = NIL
    /\ bDelay' = calculateBackoff(bAttempt, bBuild)
    /\ UNCHANGED <<bAttempt, bBuild>>
    /\ UNCHANGED <<batchVars, filterVars, detectVars, scanVars, retryVars, callVars>>

BackoffNext == Backoff

BackoffSpec == BackoffInit /\ [][BackoffNext]_vars

\* A whole number of milliseconds as a time.Duration (for less than 2^31 ms).
Millis(ms) == Duration(Int64Mul(Int64FromNat(ms), Int64FromNat(1000000)))

\* C18: for every n >= 1, calculateBackoff(n) is min(500ms * 2^(n-1), 10s):
\* 500ms, 1s, 2s, 4s, 8s for n = 1..5 and exactly 10s for every n >= 6,
\* however large.
C18_BackoffCapped ==
    bDelay # NIL =>
        bDelay = Millis(IF bAttempt <= 5 THEN 500 * (2 ^ (bAttempt - 1)) ELSE 10000)

\* ------------------------------------------- fetchFromOrigin, the retry loop

\* The largest opts.FetchRetries and defaultFetchRetries.
MaxRetries == 3

\* What PlainOpen and the origin remote of the path give.
RetryEnvs == {"openErr", "noOrigin", "noURL", "ok"}

\* The errors of a fetch attempt that are neither a cancellation nor a passed
\* deadline.
OrdinaryErrors == {"connection refused", "authentication required"}

\* What performFetch returns: nil, git.NoErrAlreadyUpToDate, or an error.
Outcomes ==
    {"nil", "already up-to-date", "context canceled", "context deadline exceeded"}
        \cup OrdinaryErrors

\* ctx.Err() of the context of the call.
RetryCtxErr ==
    IF rCtx = "canceled" THEN "context canceled" ELSE "context deadline exceeded"

\* maxRetries: opts.FetchRetries, or the default for a count that is not
\* positive.
maxRetriesOf(retries, default) == IF retries <= 0 THEN default ELSE retries

\* A slip in the loop: it runs while attempt <= maxRetries.
LoopContinuesInclusive(attempt, maxRetries) == attempt <= maxRetries

\* for attempt := range maxRetries
LoopContinues(attempt, maxRetries) == attempt < maxRetries

\* A slip: "already up to date" is not recognised and counts as a failure.
AttemptSucceededNilOnly(fetchErr) == fetchErr = "nil"

\* fetchErr == nil || errors.Is(fetchErr, git.NoErrAlreadyUpToDate)
AttemptSucceeded(fetchErr) == fetchErr \in {"nil", "already up-to-date"}

\* A slip: a passed deadline is retried like any other error.
StopsRetryingCanceledOnly(fetchErr) == fetchErr = "context canceled"

\* errors.Is(fetchErr, context.Canceled) ||
\* errors.Is(fetchErr, context.DeadlineExceeded)
StopsRetrying(fetchErr) ==
    fetchErr \in {"context canceled", "context deadline exceeded"}

\* fetchFromOrigin(ctx, repoPath, opts) has been called, in a program of
\* either build. defaultFetchRetries is a positive constant of the package.
RetryInit ==
    /\ BatchIdle /\ FilterIdle /\ DetectIdle /\ ScanIdle /\ CallsIdle
    /\ bAttempt = 0 /\ bBuild \in Builds /\ bDelay = NIL
    /\ rEnv \in RetryEnvs
    /\ rRetries \in -1..MaxRetries
    /\ rDefault \in 1..MaxRetries
    /\ rTimeout \in BOOLEAN
    /\ rCtx = "live" /\ rPc = "open" /\ rAttempt = 0 /\ rDelay = NIL
    /\ rLog = <<>> /\ rLastErr = "" /\ rResult = NIL /\ rCause = ""

RetryOnly == UNCHANGED <<batchVars, filterVars, detectVars, scanVars, backoffVars, callVars>>

\* fetchFromOrigin returns result with the given fields.
RetryReturns(success, skipped, error, cause) ==
    /\ rPc' = "done"
    /\ rResult' = FetchResult(success, skipped, error)
    /\ rCause' = cause

\* The loop is over: fetchFromOrigin returns the failure that wraps lastErr.
RetryGivesUp(lastErr) ==
    RetryReturns(FALSE, FALSE, "fetch failed after retries", lastErr)

\* The context of the call is cancelled or its deadline passes.
RetryCancel ==
    /\ RetryOnly
    /\ rCtx = "live"
    /\ rPc \in {"open", "check", "sleep", "fetch"}
    /\ rCtx' \in {"canceled", "deadline"}
    /\ UNCHANGED <<rEnv, rRetries, rDefault, rTimeout, rPc, rAttempt, rDelay,
                   rLog, rLastErr, rResult, rCause>>

\* The part before the loop: the repository is opened and its origin remote
\* looked up; the loop starts with attempt 0.
OpenRepository ==
    /\ RetryOnly
    /\ rPc = "open"
    /\ CASE rEnv = "openErr" ->
               RetryReturns(FALSE, FALSE, "failed to open repository", "open error")
          [] rEnv \in {"noOrigin", "noURL"} ->
               RetryReturns(FALSE, TRUE, "", "")
          [] OTHER ->
               IF LoopContinues(0, maxRetriesOf(rRetries, rDefault))
               THEN rPc' = "check" /\ UNCHANGED <<rResult, rCause>>
               ELSE RetryGivesUp(rLastErr)
    /\ UNCHANGED <<rEnv, rRetries, rDefault, rTimeout, rCtx, rAttempt, rDelay,
                   rLog, rLastErr>>

\* The context is checked before each attempt; a first attempt follows at
\* once, a later one after the backoff delay.
RetryCheckContext ==
    /\ RetryOnly
    /\ rPc = "check"
    /\ IF rCtx # "live"
       THEN RetryReturns(FALSE, FALSE, RetryCtxErr, "") /\ UNCHANGED rDelay
       ELSE /\ UNCHANGED <<rResult, rCause>>
            /\ IF rAttempt > 0
               THEN rPc' = "sleep" /\ rDelay' = calculateBackoff(rAttempt, bBuild)
               ELSE rPc' = "fetch" /\ UNCHANGED rDelay
    /\ UNCHANGED <<rEnv, rRetries, rDefault, rTimeout, rCtx, rAttempt, rLog,
                   rLastErr>>

\* The backoff select takes the timer: the delay has passed while the context
\* was live (a delay that is not positive has passed from the start).
BackoffElapsed ==
    /\ RetryOnly
    /\ rPc = "sleep"
    /\ rCtx = "live" \/ ~Int64Less(Int64FromNat(0), rDelay.ns)
    /\ rPc' = "fetch"
    /\ rDelay' = NIL
    /\ UNCHANGED <<rEnv, rRetries, rDefault, rTimeout, rCtx, rAttempt, rLog,
                   rLastErr, rResult, rCause>>

\* The backoff select takes ctx.Done().
BackoffInterrupted ==
    /\ RetryOnly
    /\ rPc = "sleep"
    /\ rCtx # "live"
    /\ RetryReturns(FALSE, FALSE, RetryCtxErr, "")
    /\ UNCHANGED <<rEnv, rRetries, rDefault, rTimeout, rCtx, rAttempt, rDelay,
                   rLog, rLastErr>>

\* One attempt: performFetch returns and the loop body deals with what it
\* returned. A cancellation error needs a cancelled context, a deadline error
\* a passed deadline of the context or the timeout of the attempt.
PerformFetch ==
    /\ RetryOnly
    /\ rPc = "fetch"
    /\ \E fetchErr \in Outcomes :
          /\ fetchErr = "context canceled" => rCtx = "canceled"
          /\ fetchErr = "context deadline exceeded" => (rCtx = "deadline" \/ rTimeout)
          /\ rLog' = Append(rLog, fetchErr)
          /\ IF AttemptSucceeded(fetchErr)
             THEN /\ RetryReturns(TRUE, FALSE, "", "")
                  /\ UNCHANGED <<rAttempt, rLastErr>>
             ELSE /\ rLastErr' = fetchErr
                  /\ IF StopsRetrying(fetchErr)
                        \/ ~LoopContinues(rAttempt + 1, maxRetriesOf(rRetries, rDefault))
                     THEN RetryGivesUp(fetchErr) /\ UNCHANGED rAttempt
                     ELSE /\ rPc' = "check" /\ rAttempt' = rAttempt + 1
                          /\ UNCHANGED <<rResult, rCause>>
    /\ UNCHANGED <<rEnv, rRetries, rDefault, rTimeout, rCtx, rDelay>>

RetryNext ==
    \/ RetryCancel
    \/ OpenRepository
    \/ RetryCheckContext
    \/ BackoffElapsed
    \/ BackoffInterrupted
    \/ PerformFetch

RetrySpec == RetryInit /\ [][RetryNext]_vars

\* The number of attempts the call is allowed.
AllowedAttempts == IF rRetries <= 0 THEN rDefault ELSE rRetries

\* C17: fetchFromOrigin makes at most retries attempts (the default count
\* when retries <= 0); when every attempt has failed with an error that is
\* neither a cancellation nor a passed deadline and the context is live, it
\* has made exactly that many attempts and returns failed with an error that
\* wraps the error of the last attempt.
C17_RetriesBounded ==
    /\ Len(rLog) <= AllowedAttempts
    /\ (/\ rPc = "done" /\ rEnv = "ok" /\ rCtx = "live"
        /\ \A i \in DOMAIN rLog : rLog[i] \in OrdinaryErrors) =>
           /\ Len(rLog) = AllowedAttempts
           /\ rResult = FetchResult(FALSE, FALSE, "fetch failed after retries")
           /\ rCause = rLog[Len(rLog)]

\* C17 witness: with FetchRetries 0 and a default of two, two attempts have
\* failed with different errors and the failure returned wraps the second.
C17_Witness ==
    /\ rPc = "done" /\ rCtx = "live" /\ rRetries = 0 /\ rDefault = 2
    /\ rLog = <<"connection refused", "authentication required">>
    /\ rResult = FetchResult(FALSE, FALSE, "fetch failed after retries")
    /\ rCause = "authentication required"

\* The goroutine of the call finds the context done at the check before an
\* attempt or in the backoff select.
FindsContextDone == rPc \in {"check", "sleep"} /\ rCtx # "live" /\ rPc' # rPc

\* C19: an attempt that failed with a cancellation or a passed deadline (the
\* timeout of the attempt included) is the last attempt and the call fails;
\* and when the context is found done before an attempt or during a backoff
\* sleep, the call returns failed at once with the error of the context,
\* without another attempt and without success.
C19_CancellationStopsRetry ==
    /\ [](\A i \in DOMAIN rLog :
            rLog[i] \in {"context canceled", "context deadline exceeded"} =>
                /\ i = Len(rLog) /\ rPc = "done"
                /\ rResult = FetchResult(FALSE, FALSE, "fetch failed after retries")
                /\ rCause = rLog[i])
    /\ [][FindsContextDone =>
            /\ rPc' = "done" /\ rLog' = rLog
            /\ rResult' = FetchResult(FALSE, FALSE, RetryCtxErr)]_vars

\* C19 witness: the first attempt failed, the context was cancelled during
\* the backoff sleep before the second, and the call has returned the
\* cancellation without a second attempt.
C19_Witness ==
    /\ rPc = "done" /\ rCtx = "canceled" /\ rDelay = Millis(500)
    /\ rLog = <<"connection refused">>
    /\ rResult = FetchResult(FALSE, FALSE, "context canceled")

\* C20: an attempt that reports "already up to date" is the last attempt and
\* the call returns succeeded, neither failed nor skipped, with no error.
C20_UpToDateSucceeds ==
    \A i \in DOMAIN rLog :
        rLog[i] = "already up-to-date" =>
            /\ i = Len(rLog) /\ rPc = "done"
            /\ rResult = FetchResult(TRUE, FALSE, "")

\* C20 witness: the second attempt reported "already up to date" after a
\* failed first, and the call has returned success.
C20_Witness ==
    /\ rPc = "done"
    /\ rLog = <<"connection refused", "already up-to-date">>
    /\ rResult = FetchResult(TRUE, FALSE, "")

\* ------------------------------------------------- fetch statistics (C21)

\* The repositories of the batch fetchBatch has to skip: bare ones, and those
\* without an origin remote or without a URL for it.
SkipRepos == {r \in repos : isBare[r] \/ remote[r] \in {"none", "noURL"}}

\* fetchBatch has returned.
FetchBatchOver == fetch /\ phase # "fetch"

\* The repository carries no fetchError and is not listed as failed.
NoFetchFailure(r) ==
    /\ gitStatus[r] = NIL \/ gitStatus[r].fetchError = ""
    /\ \A i \in DOMAIN fetchStats.failedRepos : fetchStats.failedRepos[i] # r

BranchNames == {"main", "feature", "DETACHED"}

\* Every repository Extract can meet, up to MaxAhead commits on each side.
AllFacts ==
    {[Facts(o, h, hb, b, n, t, af, lo, ro, st, ba, we, wc) EXCEPT !.remotesErr = re] :
        o \in BOOLEAN, h \in BOOLEAN, hb \in BOOLEAN, b \in BranchNames,
        n \in 0..1, t \in BOOLEAN, af \in {"none", "commit", "ahead", "behind"},
        lo \in 0..MaxAhead, ro \in 0..MaxAhead, st \in BOOLEAN, ba \in BOOLEAN,
        we \in BOOLEAN, wc \in BOOLEAN, re \in BOOLEAN}

\* Extract(ctx, repoPath, opts) has been called.
ExtractInit ==
    /\ BatchIdle /\ FilterIdle /\ DetectIdle /\ ScanIdle /\ FetchIdle /\ AuthIdle
    /\ eFacts \in AllFacts
    /\ eStatus = NIL

ExtractOnly ==
    UNCHANGED <<batchVars, filterVars, detectVars, scanVars, backoffVars, retryVars, authVars>>

\* The select of Extract takes what the extraction goroutine delivered.
ExtractDelivers ==
    /\ ExtractOnly
    /\ eStatus = NIL
    /\ eStatus' = Extract(eFacts, "delivered")
    /\ UNCHANGED eFacts

\* The select of Extract takes ctx.Done(): the timeout or a cancellation.
ExtractTimesOut ==
    /\ ExtractOnly
    /\ eStatus = NIL
    /\ eStatus' = Extract(eFacts, "ctx.Done")
    /\ UNCHANGED eFacts

ExtractNext ==
    \/ ExtractDelivers
    \/ ExtractTimesOut

ExtractSpec == ExtractInit /\ [][ExtractNext]_vars

\* C22: every snapshot Extract returns has ahead >= 0 and behind >= 0, and
\* ahead = behind = 0 when hasRemote is false.
C22_CountsValid ==
    eStatus # NIL =>
        /\ eStatus.ahead >= 0 /\ eStatus.behind >= 0
        /\ ~eStatus.hasRemote => (eStatus.ahead = 0 /\ eStatus.behind = 0)

\* C22 witness: a repository without remotes whose tip has a commit its
\* (stale) tracking ref lacks: the snapshot has no remote and zero counts;
\* and one with a remote: the counts are those of the commits.
C22_Witness ==
    /\ eStatus # NIL /\ ~eFacts.openErr /\ ~eFacts.headErr
    /\ eFacts.trackRef /\ eFacts.abFail = "none" /\ eFacts.localOnly = 1
    /\ \/ eFacts.nRemotes = 0 /\ ~eStatus.hasRemote /\ eStatus.ahead = 0
       \/ eFacts.nRemotes = 1 /\ ~eFacts.remotesErr /\ eStatus.hasRemote /\ eStatus.ahead = 1

\* C23: for every snapshot Extract returns, isDetached holds exactly when
\* branch is "DETACHED".
C23_DetachedIffBranch ==
    eStatus # NIL => (eStatus.isDetached <=> eStatus.branch = "DETACHED")

\* C24: the snapshot of a bare repository has hasChanges = false, and when
\* no other step fails (the repository opens, HEAD resolves, ahead/behind is
\* not computed or succeeds, no timeout) its statusError is empty.
C24_BareNoChanges ==
    (eStatus # NIL /\ eFacts.bare) =>
        /\ ~eStatus.hasChanges
        /\ (/\ eStatus # PartialTimeout
            /\ ~eFacts.openErr /\ ~eFacts.headErr
            /\ (eStatus.hasRemote => (eFacts.trackRef /\ eFacts.abFail = "none")))
              => eStatus.error = ""

\* C24 witness: a bare repository on main with a remote, whose worktree
\* status would fail and is not clean, has a snapshot without changes and
\* without error.
C24_Witness ==
    /\ eStatus # NIL /\ eFacts.bare /\ eFacts.wtErr /\ ~eFacts.wtClean
    /\ eStatus.branch = "main" /\ eStatus.hasRemote
    /\ ~eStatus.hasChanges /\ eStatus.error = ""

\* ---------------------------------------------------- snapshots on records

\* C25: every snapshot attached to a repository record has a non-empty
\* branch, the one fetchBatch creates to hold a fetchError included.
C25_BranchNonEmpty ==
    \A r \in repos : gitStatus[r] # NIL => gitStatus[r].branch # ""

\* ------------------------------------------------------------ ScanOutcome

\* No entry of the tree is a repository or leads to one.
NoRepository == \A p \in TreePaths : tree[p] \notin {"repo", "bare", "linkrepo"}

\* The root is a directory and every directory the walk comes to can be
\* listed or refuses the listing for lack of permission.
TreeListable ==
    /\ StatKind(Root) = "dir"
    /\ \A p \in TreePaths : Reached(p) => tree[p] \notin {"broken", "gone"}

\* C26: every result Scan returns has totalRepos = len(repositories) <=
\* totalScanned; and on a root without repository whose directories can be
\* listed (or refuse for lack of permission), with a context whose deadline
\* has not passed, Scan returns a result, not an error, with totalRepos = 0
\* and an empty list.
C26_CountsAgree ==
    /\ scanResult # NIL =>
          /\ scanResult.totalRepos = Len(scanResult.repositories)
          /\ scanResult.totalRepos <= scanResult.totalScanned
    /\ (ScanOver /\ NoRepository /\ TreeListable /\ scanCtx # "deadline") =>
          /\ scanPc = "done" /\ scanResult # NIL
          /\ scanResult.totalRepos = 0 /\ scanResult.repositories = <<>>

\* C26 witness: a scan that visited three directories and found two
\* repositories has returned; and a scan of two plain directories has
\* returned with no repository.
C26_Witness ==
    /\ scanPc = "done" /\ scanResult # NIL /\ scanCtx = "live"
    /\ \/ scanResult.totalRepos = 2 /\ scanResult.totalScanned = 3
       \/ /\ NoRepository /\ tree[Root] = "plain" /\ tree[<<"a">>] = "plain"
          /\ scanResult.totalRepos = 0 /\ scanResult.totalScanned >= 2

\* ------------------------------------------------------------ getAuthForURL

\* Strings are sequences of one-character strings.
Letters ==
    {"a", "b", "c", "d", "e", "f", "g", "h", "i", "l", "p", "r", "s", "t", "u", "x", "z",
     "H", "P", "S", "T"}

Digits == {"2"}

HexDigits == Digits \cup {"a", "b", "c", "d", "e", "f"}

\* strings.ToLower on the letters of the alphabet.
ToLowerChar(c) ==
    CASE c = "H" -> "h" [] c = "P" -> "p" [] c = "S" -> "s" [] c = "T" -> "t"
      [] OTHER -> c

ToLower(str) == [i \in 1..Len(str) |-> ToLowerChar(str[i])]

HasPrefix(str, prefix) ==
    Len(str) >= Len(prefix) /\ SubSeq(str, 1, Len(prefix)) = prefix

\* strings.EqualFold for strings of the alphabet.
EqualFold(a, b) == ToLower(a) = ToLower(b)

HTTPSScheme == <<"h", "t", "t", "p", "s">>

\* getScheme of net/url: the scheme is what stands before the first colon
\* when that is a letter followed by letters, digits, "+", "-" or "."; a
\* colon at the start is an error; anything else means no scheme.
getScheme(rawURL) ==
    LET stops == {i \in 1..Len(rawURL) :
                    /\ rawURL[i] \notin Letters
                    /\ ~(i > 1 /\ rawURL[i] \in Digits \cup {"+", "-", "."})}
    IN  IF stops = {}
        THEN [ok |-> TRUE, scheme |-> <<>>, rest |-> rawURL]
        ELSE LET i == CHOOSE j \in stops : \A k \in stops : j <= k
             IN  IF rawURL[i] # ":"
                 THEN [ok |-> TRUE, scheme |-> <<>>, rest |-> rawURL]
                 ELSE IF i = 1
                 THEN [ok |-> FALSE, scheme |-> <<>>, rest |-> <<>>]
                 ELSE [ok |-> TRUE, scheme |-> SubSeq(rawURL, 1, i - 1),
                       rest |-> SubSeq(rawURL, i + 1, Len(rawURL))]

\* A "%" that is not followed by two hexadecimal digits.
InvalidEscape(str) ==
    \E i \in 1..Len(str) :
        /\ str[i] = "%"
        /\ ~(i + 2 <= Len(str) /\ str[i + 1] \in HexDigits /\ str[i + 2] \in HexDigits)

\* The first path segment of a URL without scheme holds a colon.
ColonInFirstSegment(rest) ==
    \E i \in 1..Len(rest) :
        rest[i] = ":" /\ \A k \in 1..(i - 1) : rest[k] # "/"

\* url.Parse, as far as the URLs of the alphabet go (no fragment, query,
\* port or control character): whether it succeeds, and the scheme, which it
\* lowercases.
Parse(rawURL) ==
    LET g == getScheme(rawURL)
    IN  IF ~g.ok THEN [ok |-> FALSE, scheme |-> <<>>]
        ELSE IF ~HasPrefix(g.rest, <<"/">>) /\ g.scheme # <<>>
        THEN [ok |-> TRUE, scheme |-> ToLower(g.scheme)]
        ELSE IF ~HasPrefix(g.rest, <<"/">>) /\ ColonInFirstSegment(g.rest)
        THEN [ok |-> FALSE, scheme |-> <<>>]
        ELSE IF InvalidEscape(g.rest)
        THEN [ok |-> FALSE, scheme |-> <<>>]
        ELSE [ok |-> TRUE, scheme |-> ToLower(g.scheme)]

\* A slip in isHTTPSURL: every URL whose scheme starts with "http" counts.
isHTTPSURLAnyHTTP(remoteURL) == LET parsed == Parse(remoteURL) IN parsed.ok /\ HasPrefix(parsed.scheme, <<"h", "t", "t", "p">>)

\* isHTTPSURL(remoteURL).
isHTTPSURL(remoteURL) ==
    LET parsed == Parse(remoteURL)
    IN  IF ~parsed.ok
        THEN HasPrefix(ToLower(remoteURL), HTTPSScheme \o <<":", "/", "/">>)
        ELSE EqualFold(parsed.scheme, HTTPSScheme)

\* What running "git credential fill" comes to: how cmd.Run() ends ("ok",
\* a failure of the command, the context cancelled, the credential timeout)
\* and the username and password among the lines it printed.
HelperRuns == {"ok", "failed", "canceled", "timeout"}

Helpers == [run : HelperRuns, username : {"", "user"}, password : {"", "token"}]

\* The transport.AuthMethod values: nil and &http.BasicAuth{...}.
NoAuth == [basicAuth |-> FALSE, username |-> "", password |-> ""]

BasicAuth(username, password) ==
    [basicAuth |-> TRUE, username |-> username, password |-> password]

\* getGitCredentials(ctx, remoteURL, debug): [creds, err].
getGitCredentials(remoteURL, helper) ==
    IF ~Parse(remoteURL).ok THEN [username |-> "", password |-> "", err |-> "invalid URL"]
    ELSE IF helper.run # "ok"
    THEN [username |-> "", password |-> "", err |-> "git credential fill failed"]
    ELSE IF helper.username = "" \/ helper.password = ""
    THEN [username |-> "", password |-> "", err |-> "no credentials available"]
    ELSE [username |-> helper.username, password |-> helper.password, err |-> ""]

\* getAuthForURL(ctx, remoteURL, debug).
getAuthForURL(remoteURL, helper) ==
    IF ~isHTTPSURL(remoteURL) THEN NoAuth
    ELSE LET creds == getGitCredentials(remoteURL, helper)
         IN  IF creds.err # "" THEN NoAuth
             ELSE BasicAuth(creds.username, creds.password)

\* Remote URLs whose scheme is https, in any case.
HTTPSURLs ==
    {<<"h", "t", "t", "p", "s", ":", "/", "/", "h", "/", "r">>,
     <<"H", "T", "T", "P", "S", ":", "/", "/", "h", "/", "r">>,
     <<"H", "t", "t", "P", "s", ":", "/", "/", "h", "/", "r">>,
     <<"h", "t", "t", "p", "s", ":", "h">>,
     <<"h", "t", "t", "p", "s", ":", "/", "/", "h", "/", "%", "2", "f", "r">>}

\* Remote URLs that start with https:// and that url.Parse rejects.
UnparsableHTTPSURLs ==
    {<<"h", "t", "t", "p", "s", ":", "/", "/", "h", "/", "%", "z", "z">>,
     <<"H", "T", "T", "P", "S", ":", "/", "/", "h", "/", "%", "z", "z">>}

\* Remote URLs of other schemes, scp-style, plain paths, the empty string, and
\* strings that only look like https.
OtherURLs ==
    {<<"h", "t", "t", "p", ":", "/", "/", "h", "/", "r">>,
     <<"s", "s", "h", ":", "/", "/", "g", "@", "h", "/", "r">>,
     <<"g", "@", "h", ":", "u", "/", "r">>,
     <<"f", "i", "l", "e", ":", "/", "/", "/", "p">>,
     <<"/", "p", "/", "r">>,
     <<"g", "i", "t", ":", "/", "/", "h", "/", "r">>,
     <<>>,
     <<"h", "t", "t", "p", "s">>,
     <<":", "/", "/", "h">>,
     <<"h", "t", "t", "p", "s", "x", ":", "/", "/", "h">>,
     <<"2", "h", "t", "t", "p", "s", ":", "/", "/", "h">>}

RemoteURLs == HTTPSURLs \cup UnparsableHTTPSURLs \cup OtherURLs

\* getAuthForURL(ctx, remoteURL, debug) has been called.
AuthInit ==
    /\ BatchIdle /\ FilterIdle /\ DetectIdle /\ ScanIdle /\ FetchIdle /\ ExtractIdle
    /\ aURL \in RemoteURLs
    /\ aHelper \in Helpers
    /\ aAuth = NIL

\* getAuthForURL returns.
GetAuth ==
    /\ aAuth = NIL
    /\ aAuth' = getAuthForURL(aURL, aHelper)
    /\ UNCHANGED <<aURL, aHelper>>
    /\ UNCHANGED <<batchVars, filterVars, detectVars, scanVars, backoffVars, retryVars, extractVars>>

AuthNext == GetAuth

AuthSpec == AuthInit /\ [][AuthNext]_vars

\* The helper ran to its end and printed a username and a password.
HelperComplete ==
    aHelper.run = "ok" /\ aHelper.username # "" /\ aHelper.password # ""

\* C27: getAuthForURL returns credentials only for a URL whose scheme is
\* https in any case and a helper that returned a username and a password,
\* and then these; for every other URL, and whenever the helper fails, is
\* cancelled, times out or returns incomplete data, it returns nil.
C27_AuthOnlyForHTTPS ==
    aAuth # NIL =>
        /\ aAuth.basicAuth => (aURL \in HTTPSURLs /\ HelperComplete)
        /\ (aURL \in HTTPSURLs /\ HelperComplete) =>
              aAuth = BasicAuth(aHelper.username, aHelper.password)
        /\ (aURL \in OtherURLs \/ ~HelperComplete) => aAuth = NoAuth

\* C27 witness: an upper-case HTTPS URL got the credentials of the helper.
C27_Witness ==
    /\ aURL = <<"H", "T", "T", "P", "S", ":", "/", "/", "h", "/", "r">>
    /\ aHelper = [run |-> "ok", username |-> "user", password |-> "token"]
    /\ aAuth = BasicAuth("user", "token")

\* ----------------------------------------------- the batch after cancellation

\* A step of a goroutine of the batch that is runnable whatever the network
\* and the repositories do: every step of the coordinator and of the workers
\* but the return of a fetch whose context is live, the end of
\* extractGitStatus and the passing of the deadline of an Extract.
ScheduledStep ==
    \/ \E r \in Paths :
         \/ FetchSpawn(r) \/ FetchCheckContext(r) \/ FetchAcquire(r)
         \/ FetchGateCancelled(r) \/ (cancelled /\ FetchReport(r))
         \/ FetchRelease(r) \/ FetchWorkerDone(r)
         \/ StatusSpawn(r) \/ StatusCheckContext(r) \/ StatusAcquire(r)
         \/ StatusGateCancelled(r) \/ ExtractReturns(r)
         \/ StatusRelease(r) \/ StatusWorkerDone(r)
    \/ FetchClose \/ FetchCollect \/ FetchReturn
    \/ StatusClose \/ StatusCollect \/ StatusReturn

\* While some goroutine of the batch is runnable, one of them runs. Every
\* step moves its goroutine forward and none is repeated, so this is all the
\* scheduler has to give. Nothing makes the context be cancelled.
CancelFairness == WF_vars(ScheduledStep)

\* ExtractBatch is called with fetch enabled on repositories that each get a
\* fetch goroutine and a status goroutine: none is bare, each has an origin.
CancelLiveInit ==
    Init /\ fetch /\ \A r \in Paths : ~isBare[r] /\ remote[r] = "origin"

CancelLiveSpec == CancelLiveInit /\ [][Next]_vars /\ CancelFairness

\* C28: once the batch context is cancelled, fetchBatch returns and
\* ExtractBatch returns, whatever the fetches and extractions under way do.
C28_CancelledReturns ==
    /\ (cancelled /\ phase = "fetch") ~> (phase # "fetch")
    /\ cancelled ~> (phase \notin {"fetch", "status"})

\* C28 witness: the cancelled batch has returned; one unit left Extract
\* through ctx.Done() while its extraction was still running, another left
\* at the gate without a result.
C28_Witness ==
    /\ cancelled /\ phase = "attach"
    /\ \E r, q \in repos :
         /\ retPath[r] = "ctx" /\ inner[r] = "running" /\ statuses[r] = PartialTimeout
         /\ retPath[q] = "none" /\ pc[q] = "done" /\ statuses[q] = NIL

\* C29: once the batch context is cancelled no unit is admitted through the
\* gate: no worker of fetchBatch or ExtractBatch goes from waiting for a slot
\* to its fetch or its status extraction.
C29_NoAdmissionAfterCancel ==
    [][cancelled => \A r \in Paths : ~(pc[r] = "gate" /\ pc'[r] = "work")]_vars

AllUnitsDone == spawned = repos /\ wg = 0

\* C31: the status map and the fetch counters are written only when every
\* unit of the phase has signalled completion.
C31_AggregationAfterJoin ==
    [][(statuses' # statuses \/ fetchStats' # fetchStats) => AllUnitsDone]_vars

\* A goroutine other than the coordinator takes the step: a worker moves on,
\* the goroutine of an Extract delivers, or a deadline timer fires.
UnitStep ==
    \E r \in Paths :
        \/ pc[r] # "idle" /\ pc'[r] \notin {pc[r], "idle"}
        \/ inner'[r] # inner[r] /\ inner'[r] = "sent"
        \/ timedOut[r] # timedOut'[r] /\ timedOut'[r]

\* C32: no step of a worker unit writes the status map, the fetch counters
\* or a repository's GitStatus (where fetchError lives); a unit hands over
\* its result through the results channel only.
C32_CoordinatorWrites ==
    [][UnitStep =>
         /\ UNCHANGED <<statuses, fetchStats, gitStatus>>
         /\ \A r \in Paths :
               (fetchRes'[r] # fetchRes[r] \/ extractRet'[r] # extractRet[r])
                   => results' = Append(results, r)]_vars

\* C32 witness: the collect loop of fetchBatch has counted one result and
\* stored its fetchError while the other worker is still fetching.
C32_Witness ==
    /\ phase = "fetch" /\ fetchStats.failed = 1
    /\ \E r, q \in repos :
         /\ gitStatus[r] # NIL /\ gitStatus[r].fetchError # ""
         /\ pc[q] = "work"

\* ------------------------------------------------------- the backoff sleeps

\* min(500ms * 2^k, 10s) as a time.Duration.
CappedDelay(k) == Millis(IF 500 * 2^k > 10000 THEN 10000 ELSE 500 * 2^k)

C34_IdentityNotConfused ==
    (/\ scanPc = "done" /\ scanCtx = "live" /\ tree[Root] = "plain"
     /\ \A p \in TreePaths : Reached(p) => tree[p] \notin {"broken", "gone"}) =>
        \A p \in TreePaths \ {Root} :
            (Reached(p) /\ tree[p] \in {"repo", "bare"}) => ReportCount(p) = 1

\* ------------------------------------------------- the steps of extraction

\* Extract returned what extractGitStatus built for a repository that opens.
SnapshotDelivered ==
    eStatus # NIL /\ ~eFacts.openErr /\ eStatus.error # "timeout"

\* C35: once the repository is open every step is evaluated whatever failed
\* before it: the snapshot has the remote presence, the stash presence and
\* the uncommitted changes the repository has, and statusError is the error
\* of the first step that failed (HEAD, then ahead/behind, then the work
\* tree), empty when none did.
C35_StepsIndependent ==
    SnapshotDelivered =>
        /\ eStatus.hasRemote = (~eFacts.remotesErr /\ eFacts.nRemotes > 0)
        /\ eStatus.hasStashes = eFacts.stash
        /\ eStatus.hasChanges = (~eFacts.bare /\ ~eFacts.wtErr /\ ~eFacts.wtClean)
        /\ eStatus.error =
              IF eFacts.headErr THEN "failed to get HEAD"
              ELSE IF eStatus.hasRemote /\ ~eFacts.trackRef THEN "reference not found"
              ELSE IF eStatus.hasRemote /\ eFacts.abFail # "none" THEN "object not found"
              ELSE IF ~eFacts.bare /\ eFacts.wtErr THEN "failed to get worktree status"
              ELSE ""

\* C35 witness: HEAD could not be resolved and the work tree status failed
\* too; the snapshot has the remote and the stash, and keeps the HEAD error.
C35_Witness ==
    /\ SnapshotDelivered
    /\ eFacts.headErr /\ eFacts.wtErr /\ ~eFacts.bare /\ eFacts.stash
    /\ eStatus.branch = "N/A" /\ eStatus.hasRemote /\ eStatus.hasStashes
    /\ eStatus.error = "failed to get HEAD"

\* ---------------------------------------------------- running extractions

\* The repositories whose extractGitStatus is running.
Extracting == {r \in Paths : inner[r] = "running"}

\* C36: the number of extractGitStatus computations running at the same time
\* never exceeds MaxConcurrency.
C36_RunningBound == Cardinality(Extracting) <= maxConcurrency

\* ------------------------------------------------------- a gate of width 0

\* C37 as stated: with MaxConcurrency = 0 neither fetchBatch nor the status
\* phase of ExtractBatch returns unless the context is cancelled.
C37_AsStated ==
    [][(maxConcurrency = 0 /\ phase \in {"fetch", "status"} /\ phase' # phase)
          => cancelled]_vars

\* C37: with MaxConcurrency = 0 no unit is ever admitted; the status phase of
\* ExtractBatch returns only after the context is cancelled, and then with
\* an empty status map; fetchBatch returns only after the context is
\* cancelled or when every repository is bare and no worker was started, and
\* then with nothing counted as succeeded or failed.
C37_ZeroWidthGate ==
    [][maxConcurrency = 0 =>
         /\ \A r \in Paths : pc'[r] \notin {"work", "release"}
         /\ (phase = "status" /\ phase' # "status") =>
               (cancelled /\ \A r \in Paths : statuses[r] = NIL)
         /\ (phase = "fetch" /\ phase' # "fetch") =>
               /\ cancelled \/ \A r \in repos : isBare[r]
               /\ fetchStats.successful = 0 /\ fetchStats.failed = 0]_vars

\* C37 witness: with MaxConcurrency = 0 both workers waited at the gate, the
\* context was cancelled, and ExtractBatch has returned an empty map.
C37_Witness ==
    /\ maxConcurrency = 0 /\ nRepos = 2 /\ cancelled /\ phase = "attach"
    /\ \A r \in repos : pc[r] = "done" /\ retPath[r] = "none" /\ statuses[r] = NIL

\* ------------------------------------------------------ nothing stays blocked

FailedReposDistinct ==
    \A i, j \in DOMAIN fetchStats.failedRepos :
        fetchStats.failedRepos[i] = fetchStats.failedRepos[j] => i = j

\* C39: once fetchBatch has returned, cancelled or not, the counters agree:
\* totalAttempted = successful + failed, skipped + successful + failed is
\* the number of repositories, and failedRepos lists the failed
\* repositories, each once and each carrying a non-empty fetchError.
C39_CountersConsistent ==
    FetchBatchOver =>
        /\ fetchStats.totalAttempted = fetchStats.successful + fetchStats.failed
        /\ fetchStats.skipped + fetchStats.successful + fetchStats.failed = nRepos
        /\ Len(fetchStats.failedRepos) = fetchStats.failed
        /\ FailedReposDistinct
        /\ \A r \in FetchFailed :
              r \in repos /\ gitStatus[r] # NIL /\ gitStatus[r].fetchError # ""

\* What is left of C39 in a run that is never cancelled.
C39_UncancelledConsistent == ~cancelled => C39_CountersConsistent

\* What holds of the failed list in every run.
C39_FailedListed ==
    FetchBatchOver =>
        /\ fetchStats.successful + fetchStats.failed <= fetchStats.totalAttempted
        /\ Len(fetchStats.failedRepos) = fetchStats.failed
        /\ FailedReposDistinct
        /\ \A r \in FetchFailed :
              r \in repos /\ gitStatus[r] # NIL /\ gitStatus[r].fetchError # ""

\* ------------------------------------------- no tracking reference (C40)

\* The repository has a remote but no refs/remotes/origin/<branch>.
NoTrackingRef ==
    ~eFacts.remotesErr /\ eFacts.nRemotes >= 1 /\ ~eFacts.trackRef

\* C40: for a repository with a remote and no tracking reference of the
\* current branch under origin, the snapshot has ahead = behind = 0, its
\* statusError is the reference-lookup error unless the HEAD error was
\* recorded before it, and the repository is not classified clean.
C40_NoTrackingRefNotClean ==
    (SnapshotDelivered /\ NoTrackingRef) =>
        /\ eStatus.hasRemote
        /\ eStatus.ahead = 0 /\ eStatus.behind = 0
        /\ eStatus.error = IF eFacts.headErr THEN "failed to get HEAD"
                           ELSE "reference not found"
        /\ ~IsClean(Repository(<<"a">>, eFacts.bare, FALSE, eStatus))

\* C40 witness: a never-pushed main with a clean work tree and no stash; only
\* the recorded reference error keeps it from being classified clean.
C40_Witness ==
    /\ SnapshotDelivered /\ NoTrackingRef
    /\ ~eFacts.headErr /\ eFacts.headIsBranch /\ eFacts.branch = "main"
    /\ ~eFacts.bare /\ ~eFacts.wtErr /\ eFacts.wtClean /\ ~eFacts.stash
    /\ eStatus.branch = "main" /\ ~eStatus.isDetached /\ eStatus.hasRemote
    /\ ~eStatus.hasChanges /\ ~eStatus.hasStashes
    /\ eStatus.ahead = 0 /\ eStatus.behind = 0
    /\ eStatus.error = "reference not found"
    /\ IsCleanNoErrorCheck(Repository(<<"a">>, FALSE, FALSE, eStatus))
    /\ ~IsClean(Repository(<<"a">>, FALSE, FALSE, eStatus))

=============================================================================
